---- MODULE Spec2Model ----
(***************************************************************************)
(* Model of the job-application backend: the application (postulacion)     *)
(* status state machine and its timeline, the handlers and repositories    *)
(* around them, the postings, the metrics and the accounts.                *)
(*                                                                         *)
(* Several specifications share the module and its initial state:          *)
(*   Spec       PostularHandler, ActualizarEstadoPostulacionHandler and    *)
(*              ActualizarEstadoReclutadorHandler over                     *)
(*              PostulacionRepositoryImpl, one request at a time;          *)
(*   SpecFalla  Spec with a posting lookup that cannot reach the database; *)
(*   SpecCarrera  PostularHandler and the two status-update handlers, each *)
(*              database session a step, two requests interleaving;        *)
(*   SpecDom    one PostulacionAggregate in memory and the public methods  *)
(*              of the domain classes acting on it;                        *)
(*   SpecPuesto the posting handlers (create, delete, change state) and    *)
(*              PostularHandler, each database session a step of its own,  *)
(*              so that the sessions of two requests interleave;           *)
(*   SpecPuestoDom  one PuestoAggregate in memory and its public methods,  *)
(*              then ActualizarPuestoHandler and                           *)
(*              CambiarEstadoPuestoHandler session by session;             *)
(*   SpecMet    the metrics queries and MetricaRepositoryImpl;             *)
(*   SpecEventos  aggregates of several types and the event list of        *)
(*              AggregateRoot;                                             *)
(*   SpecMetAgg  one MetricaAggregate fed with the events of a candidate's *)
(*              applications;                                              *)
(*   SpecIam    the account handlers over CuentaRepositoryImpl, and one    *)
(*              CuentaAggregate in memory with its public methods.         *)
(*                                                                         *)
(* Identifiers produced by uuid4 are fresh integers; datetime.now() is a   *)
(* logical clock that ticks at every call.  Hito.hito_id and               *)
(* documentos_adjuntos are never stored and are left out.  An operation    *)
(* that ends in an exception is recorded with the name of the exception.   *)
(***************************************************************************)
EXTENDS Integers, Sequences, FiniteSets, TLC

\* ------------------------------------------------------------------ bounds
MaxReloj == 3
MaxRelojDom == 4
MaxEditados == 2
MaxTotalMet == 11
MaxEntrevistasMet == 6
MaxExitosMet == 4
MaxRequisitos == 2
MaxEventos == 3
MaxApps == 1
MaxIntentos == 6
MaxPuestos == 2

\* ------------------------------------------------- EstadoPostulacionEnum
PENDIENTE == "pendiente"
EN_REVISION == "en_revision"
RECHAZADO == "rechazado"
ACEPTADO == "aceptado"
ENTREVISTA == "entrevista"
OFERTA == "oferta"
RECHAZO == "rechazo"

EstadoPostulacionEnum ==
    {PENDIENTE, EN_REVISION, RECHAZADO, ACEPTADO, ENTREVISTA, OFERTA, RECHAZO}

\* Requested values a caller may pass: every value of the enumeration and
\* two strings that are not values of it.
Pedidos == EstadoPostulacionEnum \cup {"PENDIENTE", "contratado"}

\* ------------------------------------------------------ EstadoPostulacion
transiciones_permitidas ==
    [valor \in EstadoPostulacionEnum |->
        CASE valor = PENDIENTE   -> {EN_REVISION, RECHAZADO, RECHAZO}
          [] valor = EN_REVISION -> {ACEPTADO, RECHAZADO, ENTREVISTA, RECHAZO}
          [] valor = ACEPTADO    -> {ENTREVISTA, OFERTA}
          [] valor = RECHAZADO   -> {}
          [] valor = ENTREVISTA  -> {OFERTA, RECHAZADO, RECHAZO}
          [] valor = OFERTA      -> {}
          [] valor = RECHAZO     -> {}]

\* A table that lost the second rejection label out of ENTREVISTA.
es_valido_sin_rechazo(valor, nuevo_estado) ==
    IF nuevo_estado \in EstadoPostulacionEnum
    THEN nuevo_estado \in
            (IF valor = ENTREVISTA THEN {OFERTA, RECHAZADO}
                                   ELSE transiciones_permitidas[valor])
    ELSE FALSE

\* A table that lets a rejected application be reconsidered.
es_valido_reabre(valor, nuevo_estado) ==
    IF nuevo_estado \in EstadoPostulacionEnum
    THEN nuevo_estado \in
            (IF valor = RECHAZADO THEN {EN_REVISION}
                                  ELSE transiciones_permitidas[valor])
    ELSE FALSE

\* EstadoPostulacionEnum(nuevo_estado) raises ValueError for a string that is
\* no value of the enumeration; es_valido answers False then.
es_valido(valor, nuevo_estado) ==
    IF nuevo_estado \in EstadoPostulacionEnum
    THEN nuevo_estado \in transiciones_permitidas[valor]
    ELSE FALSE

\* ---------------------------------------------------- Hito, LineaDeTiempo
Hito(fecha, descripcion) == [fecha |-> fecha, descripcion |-> descripcion]

agregar_hito(lista_hitos, fecha, descripcion) ==
    Append(lista_hitos, Hito(fecha, descripcion))

\* Hito.actualizar_descripcion and Hito.cambiar_fecha, on entry i of a timeline.
actualizar_descripcion(lista_hitos, i, nueva_descripcion) ==
    [lista_hitos EXCEPT ![i].descripcion = nueva_descripcion]

cambiar_fecha(lista_hitos, i, nueva_fecha) ==
    [lista_hitos EXCEPT ![i].fecha = nueva_fecha]

\* f"Postulación creada en estado {estado}"
DescCreada(estado) == <<"Postulacion creada en estado", estado>>
\* f"Estado actualizado de {anterior} a {nuevo}"
DescActualizado(anterior, nuevo) == <<"Estado actualizado de", anterior, "a", nuevo>>
\* f"Actualización por reclutador: {comentario}"
DescReclutador(comentario) == <<"Actualizacion por reclutador:", comentario>>

\* ------------------------------------------------------------ Postulacion
Postulacion(postulacion_id, candidato_id, puesto_id, fecha_postulacion, estado) ==
    [postulacion_id |-> postulacion_id, candidato_id |-> candidato_id,
     puesto_id |-> puesto_id, fecha_postulacion |-> fecha_postulacion,
     estado |-> estado]

actualizar_estado(post, nuevo_estado) ==
    IF ~es_valido(post.estado, nuevo_estado)
    THEN [ok |-> FALSE, post |-> post]
    ELSE [ok |-> TRUE, post |-> [post EXCEPT !.estado = nuevo_estado]]

\* ---------------------------------------------------------------- events
PostulacionCreada(postulacion_id) ==
    [tipo |-> "PostulacionCreada", postulacion_id |-> postulacion_id,
     estado_anterior |-> "-", estado_nuevo |-> "-"]

EstadoPostulacionActualizado(postulacion_id, estado_anterior, estado_nuevo) ==
    [tipo |-> "EstadoPostulacionActualizado", postulacion_id |-> postulacion_id,
     estado_anterior |-> estado_anterior, estado_nuevo |-> estado_nuevo]

\* --------------------------------------------------- PostulacionAggregate
PostulacionAggregate(postulacion, estado, linea_de_tiempo) ==
    [postulacion |-> postulacion, estado |-> estado,
     linea_de_tiempo |-> linea_de_tiempo]

\* Result of a method: the aggregate afterwards and the events it added to
\* AggregateRoot._events.
postularse(agg) ==
    [agg |-> [agg EXCEPT !.linea_de_tiempo =
                 agregar_hito(agg.linea_de_tiempo,
                              agg.postulacion.fecha_postulacion,
                              DescCreada(agg.estado))],
     eventos |-> <<PostulacionCreada(agg.postulacion.postulacion_id)>>]

\* The prior state is read after the update instead of before it.
cambiar_estado_anterior_tardio(agg, nuevo_estado, ahora) ==
    IF nuevo_estado \notin EstadoPostulacionEnum
    THEN [ok |-> FALSE, agg |-> agg, eventos |-> <<>>]
    ELSE LET r == actualizar_estado(agg.postulacion, nuevo_estado) IN
         IF r.ok
         THEN [ok |-> TRUE,
               agg |-> PostulacionAggregate(r.post, r.post.estado,
                           agregar_hito(agg.linea_de_tiempo, ahora,
                               DescActualizado(r.post.estado, nuevo_estado))),
               eventos |-> <<EstadoPostulacionActualizado(
                               agg.postulacion.postulacion_id,
                               r.post.estado, nuevo_estado)>>]
         ELSE [ok |-> FALSE, agg |-> agg, eventos |-> <<>>]

\* The timeline entry is written before the transition is validated.
cambiar_estado_hito_previo(agg, nuevo_estado, ahora) ==
    IF nuevo_estado \notin EstadoPostulacionEnum
    THEN [ok |-> FALSE, agg |-> agg, eventos |-> <<>>]
    ELSE LET r == actualizar_estado(agg.postulacion, nuevo_estado)
             linea == agregar_hito(agg.linea_de_tiempo, ahora,
                                   DescActualizado(agg.estado, nuevo_estado)) IN
         IF r.ok
         THEN [ok |-> TRUE,
               agg |-> PostulacionAggregate(r.post, r.post.estado, linea),
               eventos |-> <<EstadoPostulacionActualizado(
                               agg.postulacion.postulacion_id,
                               agg.estado, nuevo_estado)>>]
         ELSE [ok |-> FALSE,
               agg |-> [agg EXCEPT !.linea_de_tiempo = linea],
               eventos |-> <<>>]

\* The event is added before the transition is validated, so a refused call
\* notifies too.
cambiar_estado_evento_siempre(agg, nuevo_estado, ahora) ==
    LET estado_anterior == agg.estado
        evento == <<EstadoPostulacionActualizado(agg.postulacion.postulacion_id,
                                                 estado_anterior, nuevo_estado)>>
    IN
    IF nuevo_estado \notin EstadoPostulacionEnum
    THEN [ok |-> FALSE, agg |-> agg, eventos |-> <<>>]
    ELSE LET r == actualizar_estado(agg.postulacion, nuevo_estado) IN
         IF r.ok
         THEN [ok |-> TRUE,
               agg |-> PostulacionAggregate(r.post, r.post.estado,
                           agregar_hito(agg.linea_de_tiempo, ahora,
                               DescActualizado(estado_anterior, nuevo_estado))),
               eventos |-> evento]
         ELSE [ok |-> FALSE, agg |-> agg, eventos |-> evento]

\* The application is updated and the aggregate's own estado is left behind.
cambiar_estado_sin_sincronizar(agg, nuevo_estado, ahora) ==
    LET estado_anterior == agg.estado IN
    IF nuevo_estado \notin EstadoPostulacionEnum
    THEN [ok |-> FALSE, agg |-> agg, eventos |-> <<>>]
    ELSE LET r == actualizar_estado(agg.postulacion, nuevo_estado) IN
         IF r.ok
         THEN [ok |-> TRUE,
               agg |-> PostulacionAggregate(r.post, agg.estado,
                           agregar_hito(agg.linea_de_tiempo, ahora,
                               DescActualizado(estado_anterior, nuevo_estado))),
               eventos |-> <<EstadoPostulacionActualizado(
                               agg.postulacion.postulacion_id,
                               estado_anterior, nuevo_estado)>>]
         ELSE [ok |-> FALSE, agg |-> agg, eventos |-> <<>>]

cambiar_estado(agg, nuevo_estado, ahora) ==
    LET estado_anterior == agg.estado IN
    IF nuevo_estado \notin EstadoPostulacionEnum
    THEN [ok |-> FALSE, agg |-> agg, eventos |-> <<>>]
    ELSE LET r == actualizar_estado(agg.postulacion, nuevo_estado) IN
         IF r.ok
         THEN [ok |-> TRUE,
               agg |-> PostulacionAggregate(r.post, r.post.estado,
                           agregar_hito(agg.linea_de_tiempo, ahora,
                               DescActualizado(estado_anterior, nuevo_estado))),
               eventos |-> <<EstadoPostulacionActualizado(
                               agg.postulacion.postulacion_id,
                               estado_anterior, nuevo_estado)>>]
         ELSE [ok |-> FALSE, agg |-> agg, eventos |-> <<>>]

registrar_evento(agg, descripcion, ahora) ==
    [agg EXCEPT !.linea_de_tiempo =
        agregar_hito(agg.linea_de_tiempo, ahora, descripcion)]


\* What a call produced: a value, or the exception that left it.
Valor(valor) == [error |-> "-", valor |-> valor]
Excepcion(error) == [error |-> error, valor |-> "-"]

\* ------------------------------------------------------------------ state
VARIABLES
    store,         \* table postulaciones: the rows committed, in order
    puestos,       \* table puestos, column estado: puesto_id -> value
    puuids,        \* how many puesto_id values uuid4 has produced
    uuids,         \* how many postulacion_id values uuid4 has produced
    reloj,         \* datetime.now()
    eventos,       \* AggregateRoot._events, the class-level list
    req,           \* SpecPuesto: per worker, the request between two sessions
    resp,          \* the last handler call that returned or raised, and its outcome
    ag,            \* SpecDom: the aggregate under test
    ult,           \* SpecDom: the last method call on ag and what it returned
    met,           \* SpecMet: the last metrics call and what it produced
    mrepo,         \* the attributes the MetricaRepositoryImpl instance holds
    pdatos,        \* table puestos, columns titulo and descripcion: id -> values
    pag,           \* SpecPuestoDom: the PuestoAggregate under test
    pult,          \* SpecPuestoDom: the last method call on pag and how it ended
    propios,       \* per aggregate instance, its own _events attribute if it has one
    evult,         \* SpecEventos: the last call on AggregateRoot and what it returned
    magg,          \* SpecMetAgg: the MetricaAggregate fed with a candidate's events
    apps,          \* SpecMetAgg: the candidate's applications, each by its current state
    mult,          \* SpecMetAgg: the last call on magg and what it returned
    cuentas,       \* table cuentas: the rows committed
    cag,           \* SpecIam: the CuentaAggregate under test
    iult           \* SpecIam: the last handler or method call and how it ended

pvars == <<pag, pult>>
evars == <<propios, evult>>
\* The variables of the specifications further down, which the handlers and
\* methods above them never touch.
mvars == <<magg, apps, mult>>
ivars == <<cuentas, cag, iult>>
masvars == <<evars, mvars, ivars>>
vars == <<store, puestos, pdatos, puuids, uuids, reloj, eventos, req, resp, ag, ult, met, mrepo, pvars, masvars>>
\* What the handlers of the system never touch.
domvars == <<ag, ult, met, mrepo, pvars, masvars>>

Workers == {1, 2}
CandidatoIds == {1}
PuestoIds == 1..MaxPuestos
PostulacionIds == {1, 2}
Comentarios == {"ok"}

NoAgg == PostulacionAggregate(Postulacion(0, 0, 0, 0, PENDIENTE), PENDIENTE, <<>>)

\* The last call of a handler: the command's ids and requested state, and how
\* the call ended.  cargado is the state the call loaded, visto the state the
\* table held when the call wrote; "-" where there is none.
Resp(op, resultado, postulacion_id, puesto_id, nuevo_estado, cargado, visto) ==
    [op |-> op, resultado |-> resultado, postulacion_id |-> postulacion_id,
     puesto_id |-> puesto_id, nuevo_estado |-> nuevo_estado,
     cargado |-> cargado, visto |-> visto]

\* ------------------------------------------------ PostulacionRepositoryImpl
\* Class PostulacionModel has the attributes id, cuenta_id, puesto_id,
\* fecha_postulacion, estado, resultado and hitos; it has no postulacion_id.

\* guardar: the constructor call PostulacionModel(postulacion_id=...) raises
\* TypeError before db.add; except: rollback, raise.  No row is added.
guardar(st, agg) == [error |-> "TypeError", store |-> st]

\* obtener_por_id: building the filter reads PostulacionModel.postulacion_id
\* and raises AttributeError; try/finally lets it through.
obtener_por_id(st, postulacion_id) == Excepcion("AttributeError")

\* actualizar_estado_postulacion: the same filter raises AttributeError inside
\* the try; except Exception: rollback, return False.  Nothing is written.
actualizar_estado_postulacion(st, postulacion_id, nuevo_estado, descripcion, ahora) ==
    [ok |-> FALSE, error |-> "AttributeError", store |-> st]

\* --------------------------------------------------- MetricaRepositoryImpl
\* A float, kept as the exact quotient num / den.
Racional(num, den) == [num |-> num, den |-> den]

MetricaRegistro(perfil, total_postulaciones, total_entrevistas, total_exitos, total_rechazos, tasa) ==
    [perfil_id |-> perfil, total_postulaciones |-> total_postulaciones,
     total_entrevistas |-> total_entrevistas, total_exitos |-> total_exitos,
     total_rechazos |-> total_rechazos, tasa_exito |-> tasa]

\* id_logro and fecha_obtencion are fresh at every call and are left out.
Logro(nombre_logro, umbral) == [nombre_logro |-> nombre_logro, umbral |-> umbral]

MetricaAggregate(metrica_registro, lista_logros) ==
    [metrica_registro |-> metrica_registro, lista_logros |-> lista_logros]

\* Thresholds compared with > instead of >=.
_calcular_logros_estricto(self, total_postulaciones, total_entrevistas, total_exitos, total_rechazos) ==
    [self |-> self,
     logros |->
        (IF total_postulaciones > 10 THEN <<Logro("Postulante Activo", 10)>> ELSE <<>>)
        \o (IF total_entrevistas > 5 THEN <<Logro("Entrevistado Frecuente", 5)>> ELSE <<>>)
        \o (IF total_exitos > 1 THEN <<Logro("Primera Oferta", 1)>> ELSE <<>>)
        \o (IF total_exitos > 3 THEN <<Logro("Candidato Destacado", 3)>> ELSE <<>>)]

\* A repository that keeps, in an attribute of its own, the names it has
\* granted, and returns an achievement only the first time it is earned.
_calcular_logros_con_memoria(self, total_postulaciones, total_entrevistas, total_exitos, total_rechazos) ==
    LET todos ==
            (IF total_postulaciones >= 10 THEN <<Logro("Postulante Activo", 10)>> ELSE <<>>)
            \o (IF total_entrevistas >= 5 THEN <<Logro("Entrevistado Frecuente", 5)>> ELSE <<>>)
            \o (IF total_exitos >= 1 THEN <<Logro("Primera Oferta", 1)>> ELSE <<>>)
            \o (IF total_exitos >= 3 THEN <<Logro("Candidato Destacado", 3)>> ELSE <<>>)
    IN [self |-> self \cup {todos[i].nombre_logro : i \in DOMAIN todos},
        logros |-> SelectSeq(todos, LAMBDA logro : logro.nombre_logro \notin self)]

\* _calcular_logros: a method of the repository.  self is what the instance
\* holds when the method is called (__init__ assigns nothing) and, in the
\* result, what it holds when the method returns: the method reads and
\* assigns no attribute.  logros is the list it returns, built from four
\* independent tests, appended in this order.
_calcular_logros(self, total_postulaciones, total_entrevistas, total_exitos, total_rechazos) ==
    [self |-> self,
     logros |->
        (IF total_postulaciones >= 10 THEN <<Logro("Postulante Activo", 10)>> ELSE <<>>)
        \o (IF total_entrevistas >= 5 THEN <<Logro("Entrevistado Frecuente", 5)>> ELSE <<>>)
        \o (IF total_exitos >= 1 THEN <<Logro("Primera Oferta", 1)>> ELSE <<>>)
        \o (IF total_exitos >= 3 THEN <<Logro("Candidato Destacado", 3)>> ELSE <<>>)]

\* obtener_por_postulante: its first query filters on PostulacionModel.perfil_id,
\* an attribute the class does not have: AttributeError, and try/finally lets
\* it through.  No row is read and no count is made.
obtener_por_postulante(st, postulante_id) == Excepcion("AttributeError")

\* The three counters build the same filter.
obtener_contador_ofertas(st, postulante_id) == Excepcion("AttributeError")

obtener_contador_entrevistas(st, postulante_id) == Excepcion("AttributeError")

obtener_contador_rechazos(st, postulante_id) == Excepcion("AttributeError")

\* The dict both summary handlers build from the aggregate.  They read
\* metrica_registro.cuenta_id; an object without that attribute raises
\* AttributeError.
ResumenDict(metrica_aggregate) ==
    LET m == metrica_aggregate.metrica_registro IN
    IF "cuenta_id" \notin DOMAIN m
    THEN Excepcion("AttributeError")
    ELSE Valor([cuenta_id |-> m.cuenta_id,
                total_postulaciones |-> m.total_postulaciones,
                total_entrevistas |-> m.total_entrevistas,
                total_exitos |-> m.total_exitos,
                total_rechazos |-> m.total_rechazos,
                tasa_exito |-> m.tasa_exito])

\* ConsultarResumenMetricasHandler.handle and RecalcularMetricasHandler.handle:
\* the exception of the repository call leaves the handler.
ConsultarResumenMetricas(st, cuenta_id) ==
    LET metrica_aggregate == obtener_por_postulante(st, cuenta_id) IN
    IF metrica_aggregate.error # "-" THEN metrica_aggregate
    ELSE ResumenDict(metrica_aggregate.valor)

RecalcularMetricas(st, cuenta_id) ==
    LET metrica_aggregate == obtener_por_postulante(st, cuenta_id) IN
    IF metrica_aggregate.error # "-" THEN metrica_aggregate
    ELSE ResumenDict(metrica_aggregate.valor)

\* The dicts ListarLogrosHandler.handle builds, one per achievement.  id_logro
\* and fecha_obtencion are fresh at every call and are left out, as in Logro.
LogrosDict(lista_logros) ==
    [i \in DOMAIN lista_logros |->
        [nombre_logro |-> lista_logros[i].nombre_logro,
         umbral |-> lista_logros[i].umbral]]

\* ListarLogrosHandler.handle
ListarLogros(st, cuenta_id) ==
    LET metrica_aggregate == obtener_por_postulante(st, cuenta_id) IN
    IF metrica_aggregate.error # "-" THEN metrica_aggregate
    ELSE Valor(LogrosDict(metrica_aggregate.valor.lista_logros))

\* ContadorRechazosQueryHandler.handle
ContadorRechazos(st, postulante_id) ==
    LET total_rechazos == obtener_contador_rechazos(st, postulante_id) IN
    IF total_rechazos.error # "-" THEN total_rechazos
    ELSE Valor([postulante_id |-> postulante_id, total_rechazos |-> total_rechazos.valor])

\* The last metrics call: its arguments, what it produced and, when the call
\* before it was the same call with the same arguments, what that one
\* produced (else empty).
Met(op, arg, res) ==
    [op |-> op, arg |-> arg, res |-> res,
     antes |-> IF met.op = op /\ met.arg = arg THEN <<met.res>> ELSE <<>>]
MetInicial == [op |-> "-", arg |-> <<>>, res |-> Valor("-"), antes |-> <<>>]

\* ------------------------------------------------------------------ Puesto
ABIERTO == "abierto"
CERRADO == "cerrado"
EstadoPuestoEnum == {ABIERTO, CERRADO}

\* Python's None in a text field.  Amounts are written as their decimal text,
\* so that a field holding None and a field holding an amount can be compared;
\* a date that is None is SinFecha.
None == "None"
SinFecha == -1

Requisito(tipo, descripcion, es_obligatorio) ==
    [tipo |-> tipo, descripcion |-> descripcion, es_obligatorio |-> es_obligatorio]

\* empresa_id and fecha_publicacion are set at construction and no method
\* assigns them; they are left out.
Puesto(puesto_id, titulo, descripcion, ubicacion, salario_min, salario_max, moneda, tipo_contrato, fecha_cierre, estado) ==
    [puesto_id |-> puesto_id, titulo |-> titulo, descripcion |-> descripcion,
     ubicacion |-> ubicacion, salario_min |-> salario_min,
     salario_max |-> salario_max, moneda |-> moneda,
     tipo_contrato |-> tipo_contrato, fecha_cierre |-> fecha_cierre,
     estado |-> estado]

abrir_puesto(puesto) ==
    IF puesto.estado = CERRADO
    THEN [ok |-> TRUE, puesto |-> [puesto EXCEPT !.estado = ABIERTO]]
    ELSE [ok |-> FALSE, puesto |-> puesto]

cerrar_puesto(puesto, ahora) ==
    IF puesto.estado = ABIERTO
    THEN [ok |-> TRUE,
          puesto |-> [puesto EXCEPT !.estado = CERRADO, !.fecha_cierre = ahora]]
    ELSE [ok |-> FALSE, puesto |-> puesto]

\* The keyword arguments of actualizar_informacion; None leaves a field alone.
CamposPuesto ==
    {"titulo", "descripcion", "ubicacion", "salario_min", "salario_max",
     "moneda", "tipo_contrato"}

\* The closed test comes after the assignments.
actualizar_informacion_tardio(puesto, cambios) ==
    LET escrito == [c \in DOMAIN puesto |->
                       IF c \in CamposPuesto /\ cambios[c] # None
                       THEN cambios[c] ELSE puesto[c]]
    IN IF puesto.estado = CERRADO
       THEN [error |-> "ValueError", puesto |-> escrito]
       ELSE [error |-> "-", puesto |-> escrito]

\* Puesto.actualizar_informacion
actualizar_informacion(puesto, cambios) ==
    IF puesto.estado = CERRADO
    THEN [error |-> "ValueError", puesto |-> puesto]
    ELSE [error |-> "-",
          puesto |-> [c \in DOMAIN puesto |->
                         IF c \in CamposPuesto /\ cambios[c] # None
                         THEN cambios[c] ELSE puesto[c]]]

PuestoAggregate(puesto, requisitos) == [puesto |-> puesto, requisitos |-> requisitos]

agregar_requisito(pagg, tipo, descripcion, es_obligatorio) ==
    IF pagg.puesto.estado = CERRADO
    THEN [error |-> "ValueError", agg |-> pagg]
    ELSE [error |-> "-",
          agg |-> [pagg EXCEPT !.requisitos =
                      Append(@, Requisito(tipo, descripcion, es_obligatorio))]]

\* req.get(clave, valor): the dict's value, or the default for a missing key.
get(dict, clave, valor) == IF clave \in DOMAIN dict THEN dict[clave] ELSE valor

actualizar_requisitos(pagg, nuevos_requisitos) ==
    IF pagg.puesto.estado = CERRADO
    THEN [error |-> "ValueError", agg |-> pagg]
    ELSE [error |-> "-",
          agg |-> [pagg EXCEPT !.requisitos =
                      [i \in DOMAIN nuevos_requisitos |->
                          Requisito(get(nuevos_requisitos[i], "tipo", "general"),
                                    get(nuevos_requisitos[i], "descripcion", ""),
                                    get(nuevos_requisitos[i], "es_obligatorio", TRUE))]]]

\* A request for the state the posting has is carried out as if it were new.
puesto_cambiar_estado_siempre(pagg, nuevo_estado, ahora) ==
    [ok |-> TRUE,
     agg |-> [pagg EXCEPT !.puesto.estado = nuevo_estado,
                          !.puesto.fecha_cierre =
                              IF nuevo_estado = CERRADO THEN ahora ELSE @]]

\* PuestoAggregate.cambiar_estado
puesto_cambiar_estado(pagg, nuevo_estado, ahora) ==
    LET c == IF nuevo_estado = ABIERTO
             THEN abrir_puesto(pagg.puesto)
             ELSE cerrar_puesto(pagg.puesto, ahora)
    IN [ok |-> c.ok, agg |-> [pagg EXCEPT !.puesto = c.puesto]]

\* ---------------------------------------------------- PuestoRepositoryImpl
\* Table puestos (with its mapping table) is kept by column: puestos holds
\* estado, pdatos holds titulo and descripcion, both by puesto_id.  guardar
\* writes these (and empresa, which no handler below changes); the other
\* columns and the requisitos are never written.
PuestoDatos(titulo, descripcion) == [titulo |-> titulo, descripcion |-> descripcion]

\* obtener_por_id: nothing (None) for an id without mapping or row; else the
\* aggregate rebuilt from the stored columns, the rest set to the constants
\* of the constructor call.  The Optional is a sequence of length 0 or 1.
puesto_obtener_por_id(ps, pd, puesto_id) ==
    IF puesto_id \notin DOMAIN ps THEN <<>>
    ELSE <<PuestoAggregate(
               Puesto(puesto_id, pd[puesto_id].titulo, pd[puesto_id].descripcion,
                      "", "0.0", "0.0", "", "", SinFecha, ps[puesto_id]),
               <<>>)>>

\* guardar: UPDATE of the row the mapping leads to, or, for an id without
\* mapping, INSERT of a new row and its mapping.
puesto_guardar(ps, pd, pagg) ==
    LET puesto == pagg.puesto IN
    [ps |-> [p \in DOMAIN ps \cup {puesto.puesto_id} |->
                IF p = puesto.puesto_id THEN puesto.estado ELSE ps[p]],
     pd |-> [p \in DOMAIN pd \cup {puesto.puesto_id} |->
                IF p = puesto.puesto_id
                THEN PuestoDatos(puesto.titulo, puesto.descripcion)
                ELSE pd[p]]]

\* eliminar: False for an id without mapping; else the row and the mapping
\* are deleted.
puesto_eliminar(ps, pd, puesto_id) ==
    IF puesto_id \notin DOMAIN ps
    THEN [ok |-> FALSE, ps |-> ps, pd |-> pd]
    ELSE [ok |-> TRUE,
          ps |-> [p \in DOMAIN ps \ {puesto_id} |-> ps[p]],
          pd |-> [p \in DOMAIN pd \ {puesto_id} |-> pd[p]]]

PuestoCreado(puesto_id) ==
    [tipo |-> "PuestoCreado", puesto_id |-> puesto_id]

PuestoCerrado(puesto_id, fecha_cierre) ==
    [tipo |-> "PuestoCerrado", puesto_id |-> puesto_id, fecha_cierre |-> fecha_cierre]

PuestoActualizado(puesto_id, campos_actualizados) ==
    [tipo |-> "PuestoActualizado", puesto_id |-> puesto_id,
     campos_actualizados |-> campos_actualizados]

\* The aggregate CrearPuestoHandler builds around Puesto's defaults.
PuestoNuevo(puesto_id) ==
    PuestoAggregate(Puesto(puesto_id, "t", "d", "u", None, None, "MXN", "tiempo_completo",
                           SinFecha, ABIERTO),
                    <<>>)
PagInicial == PuestoNuevo(1)
PUlt(op, error) == [op |-> op, error |-> error]

\* A worker is free ("libre") or is between the session in which its handler
\* read and the session in which it writes ("cargado", with the command, the
\* estado the read returned, and the aggregate the handler holds).
ReqLibre ==
    [pc |-> "libre", tipo |-> "-", puesto_id |-> 0, candidato_id |-> 0,
     postulacion_id |-> 0, nuevo_estado |-> "-", cargado |-> "-", campos |-> <<>>,
     agg |-> PagInicial]
ReqCargado(tipo, puesto_id, candidato_id, nuevo_estado, cargado, campos, agg) ==
    [pc |-> "cargado", tipo |-> tipo, puesto_id |-> puesto_id,
     candidato_id |-> candidato_id, postulacion_id |-> 0,
     nuevo_estado |-> nuevo_estado, cargado |-> cargado, campos |-> campos,
     agg |-> agg]
\* The same for a status update of an application: descripcion is the text of
\* the timeline entry a recruiter update writes.
ReqActualizacion(tipo, postulacion_id, nuevo_estado, cargado, descripcion, agg) ==
    [ReqCargado(tipo, 0, 0, nuevo_estado, cargado, descripcion, agg)
        EXCEPT !.postulacion_id = postulacion_id]

\* ------------------------------------------------------------ AggregateRoot
\* _events is assigned once, in the class body.  self._events is looked up in
\* the instance first and in the class next: props[a] is <<>> while instance a
\* has no attribute of that name, clase is the list of the class.
Agregados == {"PostulacionAggregate 1", "PostulacionAggregate 2", "PuestoAggregate 1", "MetricaAggregate 1"}

self_events(props, clase, a) == IF props[a] # <<>> THEN props[a][1] ELSE clase

MetricaActualizada(perfil_id, tipo_actualizacion) ==
    [tipo |-> "MetricaActualizada", perfil_id |-> perfil_id,
     tipo_actualizacion |-> tipo_actualizacion]

LogroConseguido(perfil_id, nombre_logro) ==
    [tipo |-> "LogroConseguido", perfil_id |-> perfil_id, nombre_logro |-> nombre_logro]

\* Each instance gets a list of its own at its first add_event.
add_event_propio(props, clase, a, event) ==
    [props |-> [props EXCEPT ![a] = <<Append(self_events(props, clase, a), event)>>],
     clase |-> clase]

\* add_event: append, in place, to the list the lookup finds.
add_event(props, clase, a, event) ==
    IF props[a] # <<>>
    THEN [props |-> [props EXCEPT ![a] = <<Append(@[1], event)>>], clase |-> clase]
    ELSE [props |-> props, clase |-> Append(clase, event)]

\* clear_events: empty, in place, the list the lookup finds.
clear_events(props, clase, a) ==
    IF props[a] # <<>>
    THEN [props |-> [props EXCEPT ![a] = << <<>> >>], clase |-> clase]
    ELSE [props |-> props, clase |-> <<>>]

\* get_events: a copy of the list the lookup finds.
get_events(props, clase, a) == self_events(props, clase, a)

EvUlt(op, agregado, valor) == [op |-> op, agregado |-> agregado, valor |-> valor]
\* -------------------------------------------- MetricaRegistro, the entity
_recalcular_tasa_exito(registro) ==
    [registro EXCEPT !.tasa_exito =
        IF registro.total_postulaciones > 0
        THEN Racional(registro.total_exitos * 100, registro.total_postulaciones)
        ELSE Racional(0, 1)]

aumentar_postulaciones(registro) ==
    _recalcular_tasa_exito([registro EXCEPT !.total_postulaciones = @ + 1])

aumentar_entrevistas(registro) == [registro EXCEPT !.total_entrevistas = @ + 1]

aumentar_ofertas(registro) ==
    _recalcular_tasa_exito([registro EXCEPT !.total_exitos = @ + 1])

aumentar_rechazos(registro) ==
    _recalcular_tasa_exito([registro EXCEPT !.total_rechazos = @ + 1])

\* --------------------------------------------------------------- Logro
\* palabra in nombre_logro.lower(), for the names the rules below use.
Contiene(nombre_logro, palabra) ==
    CASE palabra = "postulaciones" -> nombre_logro \in {"Primeras postulaciones"}
      [] palabra = "entrevista" -> nombre_logro \in {"Entrevistado Frecuente"}
      [] palabra = "oferta" -> nombre_logro \in {"Primera Oferta"}
      [] OTHER -> FALSE

verificar_logro(logro, total_postulaciones, total_entrevistas, total_exitos) ==
    IF Contiene(logro.nombre_logro, "postulaciones") /\ total_postulaciones >= logro.umbral
    THEN TRUE
    ELSE IF Contiene(logro.nombre_logro, "entrevista") /\ total_entrevistas >= logro.umbral
    THEN TRUE
    ELSE IF Contiene(logro.nombre_logro, "oferta") /\ total_exitos >= logro.umbral
    THEN TRUE
    ELSE FALSE

\* ---------------------------------------- MetricaAggregate, the event path
\* Each method returns the aggregate and the events it added.
aplicar_postulacion_creada(agg) ==
    [agg |-> [agg EXCEPT !.metrica_registro = aumentar_postulaciones(@)],
     eventos |-> <<MetricaActualizada(agg.metrica_registro.perfil_id,
                                      "postulacion_creada")>>]

aplicar_estado_actualizado(agg, estado_anterior, estado_nuevo) ==
    IF estado_nuevo = "entrevista" /\ estado_anterior # "entrevista"
    THEN [agg |-> [agg EXCEPT !.metrica_registro = aumentar_entrevistas(@)],
          eventos |-> <<MetricaActualizada(agg.metrica_registro.perfil_id,
                                           "entrevista_conseguida")>>]
    ELSE IF estado_nuevo = "oferta" /\ estado_anterior # "oferta"
    THEN [agg |-> [agg EXCEPT !.metrica_registro = aumentar_ofertas(@)],
          eventos |-> <<MetricaActualizada(agg.metrica_registro.perfil_id,
                                           "oferta_conseguida")>>]
    ELSE IF estado_nuevo = "rechazo" /\ estado_anterior # "rechazo"
    THEN [agg |-> [agg EXCEPT !.metrica_registro = aumentar_rechazos(@)],
          eventos |-> <<MetricaActualizada(agg.metrica_registro.perfil_id,
                                           "postulacion_rechazada")>>]
    ELSE [agg |-> agg, eventos |-> <<>>]

aplicar_postulacion_eliminada(agg) ==
    IF agg.metrica_registro.total_postulaciones > 0
    THEN [agg |-> [agg EXCEPT !.metrica_registro =
                      _recalcular_tasa_exito([@ EXCEPT !.total_postulaciones = @ - 1])],
          eventos |-> <<MetricaActualizada(agg.metrica_registro.perfil_id,
                                           "postulacion_eliminada")>>]
    ELSE [agg |-> agg, eventos |-> <<>>]

\* The loop of evaluar_logros without its "already has this achievement" test.
RECURSIVE evaluar_logros_sin_memoria(_, _)
evaluar_logros_sin_memoria(agg, lista_reglas) ==
    IF lista_reglas = <<>>
    THEN [agg |-> agg, nuevos_logros |-> <<>>, eventos |-> <<>>]
    ELSE LET regla == Head(lista_reglas)
             logro_temp == Logro(regla.nombre, regla.umbral)
             m == agg.metrica_registro
             otorga == verificar_logro(logro_temp, m.total_postulaciones,
                                       m.total_entrevistas, m.total_exitos)
             sig == IF otorga
                    THEN [agg EXCEPT !.lista_logros = Append(@, logro_temp)]
                    ELSE agg
             r == evaluar_logros_sin_memoria(sig, Tail(lista_reglas))
         IN IF otorga
            THEN [agg |-> r.agg,
                  nuevos_logros |-> <<logro_temp>> \o r.nuevos_logros,
                  eventos |-> <<LogroConseguido(m.perfil_id, logro_temp.nombre_logro)>>
                              \o r.eventos]
            ELSE r

\* evaluar_logros: the rules in order; a rule whose name is already in
\* lista_logros is skipped, and lista_logros grows while the loop runs.
RECURSIVE evaluar_logros(_, _)
evaluar_logros(agg, lista_reglas) ==
    IF lista_reglas = <<>>
    THEN [agg |-> agg, nuevos_logros |-> <<>>, eventos |-> <<>>]
    ELSE LET regla == Head(lista_reglas)
             logro_temp == Logro(regla.nombre, regla.umbral)
             m == agg.metrica_registro
             ya == \E i \in DOMAIN agg.lista_logros :
                      agg.lista_logros[i].nombre_logro = regla.nombre
             otorga == /\ ~ya
                       /\ verificar_logro(logro_temp, m.total_postulaciones,
                                          m.total_entrevistas, m.total_exitos)
             sig == IF otorga
                    THEN [agg EXCEPT !.lista_logros = Append(@, logro_temp)]
                    ELSE agg
             r == evaluar_logros(sig, Tail(lista_reglas))
         IN IF otorga
            THEN [agg |-> r.agg,
                  nuevos_logros |-> <<logro_temp>> \o r.nuevos_logros,
                  eventos |-> <<LogroConseguido(m.perfil_id, logro_temp.nombre_logro)>>
                              \o r.eventos]
            ELSE r

\* A new aggregate: MetricaRegistro(perfil_id) with its defaults, no Logro.
MaggInicial == MetricaAggregate(MetricaRegistro(1, 0, 0, 0, 0, Racional(0, 1)), <<>>)
\* repetida: the call before this one was the same call.
MUlt(op, arg, valor) ==
    [op |-> op, arg |-> arg, valor |-> valor,
     repetida |-> mult.op = op /\ mult.arg = arg]
MUltInicial == [op |-> "-", arg |-> <<>>, valor |-> <<>>, repetida |-> FALSE]

\* --------------------------------------------------------- PasswordManager
\* A password is the sequence of its characters.
Mayusculas == {"A", "Z"}
Minusculas == {"a", "b", "c", "d", "e", "f", "x"}
Digitos == {"1", "2"}
caracteres_especiales == {"!", "?", "$"}

Fuerte1 == <<"A", "b", "c", "d", "e", "f", "1", "!">>
Fuerte2 == <<"Z", "b", "c", "d", "e", "f", "2", "?">>
Debil == <<"a", "b", "c">>
\* Strong by the five rules, and it begins like a bcrypt hash.
ConPrefijo == <<"$", "2", "b", "$", "A", "a", "1", "x">>
Passwords == {Fuerte1, Fuerte2, Debil, ConPrefijo}

Recortar72(bytes) == IF Len(bytes) > 72 THEN SubSeq(bytes, 1, 72) ELSE bytes

empieza_como_hash(password) ==
    /\ Len(password) >= 4
    /\ password[1] = "$" /\ password[2] = "2"
    /\ password[3] \in {"a", "b", "y"} /\ password[4] = "$"

\* bcrypt: the hash string carries the cost and salt it was made with (sal)
\* and stands for the digest of the first 72 bytes (de).  sal = 0 is a string
\* that is not a bcrypt hash, the empty string among them.  <<>> stands for
\* the ValueError of hashear_password.
hashear_password(password) ==
    IF empieza_como_hash(password) THEN <<>>
    ELSE <<[sal |-> 12, de |-> Recortar72(password)]>>

\* verificar_password returns what bcrypt.checkpw returns and has no try:
\* checkpw raises ValueError ("Invalid salt") on a string that is not a bcrypt
\* hash.
verificar_password(password, hash_password) ==
    IF hash_password.sal = 0 THEN Excepcion("ValueError")
    ELSE Valor(hash_password.de = Recortar72(password))

es_password_fuerte(password) ==
    IF Len(password) < 8 THEN FALSE
    ELSE IF ~ \E i \in DOMAIN password : password[i] \in Mayusculas THEN FALSE
    ELSE IF ~ \E i \in DOMAIN password : password[i] \in Minusculas THEN FALSE
    ELSE IF ~ \E i \in DOMAIN password : password[i] \in Digitos THEN FALSE
    ELSE IF ~ \E i \in DOMAIN password : password[i] \in caracteres_especiales THEN FALSE
    ELSE TRUE

\* ------------------------------------------------------------ TokenManager
\* jwt.encode of the claims and their expiry: the same claims encoded at the
\* same clock reading give the same string.
crear_access_token(sub, email, ahora) ==
    [sub |-> sub, email |-> email, tipo |-> "access", exp |-> ahora + 30]

crear_refresh_token(sub, email, ahora) ==
    [sub |-> sub, email |-> email, tipo |-> "refresh", exp |-> ahora + 10080]

\* -------------------------------------------------------- EstadoCuentaEnum
ACTIVA == "activa"
INACTIVA == "inactiva"
SUSPENDIDA == "suspendida"
VERIFICADA == "verificada"
NO_VERIFICADA == "no_verificada"
EstadoCuentaEnum == {ACTIVA, INACTIVA, SUSPENDIDA, VERIFICADA, NO_VERIFICADA}

\* --------------------------------------------------------- CuentaAggregate
\* Cuenta and its Credencial, flattened; tokens_activos is the dict's values,
\* at most one Token per tipo_token.  The dates, datos_verificacion and
\* historial_accesos are written and never read by a handler, and are left
\* out.  Each method returns the aggregate and the events it adds to the
\* event list.
SinHash == [sal |-> 0, de |-> <<>>]

Token(id_token, token_value, tipo_token) ==
    [id_token |-> id_token, token_value |-> token_value, tipo_token |-> tipo_token]

CuentaAggregate(cuenta_id, email, hash_password, estado) ==
    [cuenta_id |-> cuenta_id, email |-> email, hash_password |-> hash_password,
     estado |-> estado, tokens_activos |-> {}, intentos_fallidos |-> 0]

CuentaCreada(cuenta_id, email) ==
    [tipo |-> "CuentaCreada", cuenta_id |-> cuenta_id, email |-> email]
CuentaVerificada(cuenta_id) == [tipo |-> "CuentaVerificada", cuenta_id |-> cuenta_id]
TokenGenerado(cuenta_id, token_id, tipo_token) ==
    [tipo |-> "TokenGenerado", cuenta_id |-> cuenta_id, token_id |-> token_id,
     tipo_token |-> tipo_token]
LoginExitoso(cuenta_id) == [tipo |-> "LoginExitoso", cuenta_id |-> cuenta_id]
CuentaSuspendida(cuenta_id) == [tipo |-> "CuentaSuspendida", cuenta_id |-> cuenta_id]
PasswordActualizado(cuenta_id) == [tipo |-> "PasswordActualizado", cuenta_id |-> cuenta_id]

cuenta_cambiar_estado(agg, nuevo_estado) == [agg EXCEPT !.estado = nuevo_estado]

aplicar_creacion_cuenta(agg, email, hash_password) ==
    [agg |-> [agg EXCEPT !.email = email, !.hash_password = hash_password],
     eventos |-> <<CuentaCreada(agg.cuenta_id, email)>>]

aplicar_verificacion_cuenta(agg) ==
    IF agg.estado = VERIFICADA
    THEN [agg |-> agg, ret |-> FALSE, eventos |-> <<>>]
    ELSE [agg |-> cuenta_cambiar_estado(agg, VERIFICADA), ret |-> TRUE,
          eventos |-> <<CuentaVerificada(agg.cuenta_id)>>]

\* id_token is the uuid4 the new Token gets; the token the dict held under
\* tipo_token is replaced.
aplicar_generacion_token(agg, token_value, tipo_token, id_token) ==
    [agg |-> [agg EXCEPT !.tokens_activos =
                 {t \in @ : t.tipo_token # tipo_token}
                 \cup {Token(id_token, token_value, tipo_token)}],
     eventos |-> <<TokenGenerado(agg.cuenta_id, id_token, tipo_token)>>]

aplicar_login_exitoso(agg) ==
    [agg |-> [agg EXCEPT !.intentos_fallidos = 0],
     eventos |-> <<LoginExitoso(agg.cuenta_id)>>]

aplicar_intento_fallido(agg) ==
    LET a == [agg EXCEPT !.intentos_fallidos = @ + 1] IN
    IF a.intentos_fallidos >= 5
    THEN [agg |-> cuenta_cambiar_estado(a, SUSPENDIDA),
          eventos |-> <<CuentaSuspendida(agg.cuenta_id)>>]
    ELSE [agg |-> a, eventos |-> <<>>]

aplicar_cambio_password(agg, nuevo_hash_password) ==
    [agg |-> [agg EXCEPT !.hash_password = nuevo_hash_password, !.tokens_activos = {}],
     eventos |-> <<PasswordActualizado(agg.cuenta_id)>>]

\* The aggregate as CrearCuentaHandler builds it, before aplicar_creacion_cuenta.
CagInicial == CuentaAggregate(1, "", SinHash, NO_VERIFICADA)

\* ---------------------------------------------------- CuentaRepositoryImpl
\* Table cuentas, by id; each row with the rows of table tokens that point to
\* it (field tokens_activos).  guardar, for an id that has a row: the columns
\* email, hash_password, estado and intentos_fallidos are overwritten; a
\* token of the aggregate whose id has no row in table tokens gets one, and
\* no token row is changed or removed.  Columns cuentas.email and
\* tokens.token_value are unique: an e-mail another row holds, or a new token
\* whose value a stored token or another new token has, makes the commit
\* raise IntegrityError, which is rolled back and raised as ValueError with
\* nothing written.  For an id without row the row to insert is built from
\* cuenta.nombre_completo, which Cuenta does not have: AttributeError, rolled
\* back and raised again.
cuenta_guardar(tabla, agg) ==
    IF agg.cuenta_id \in DOMAIN tabla
    THEN LET token_rows == UNION {tabla[c].tokens_activos : c \in DOMAIN tabla}
             nuevos == {t \in agg.tokens_activos :
                           \A s \in token_rows : s.id_token # t.id_token}
             email_repetido ==
                 \E c \in DOMAIN tabla \ {agg.cuenta_id} : tabla[c].email = agg.email
             token_value_repetido ==
                 \/ \E t \in nuevos, s \in token_rows : s.token_value = t.token_value
                 \/ \E t, u \in nuevos : t # u /\ t.token_value = u.token_value
         IN IF email_repetido \/ token_value_repetido
            THEN [error |-> "ValueError", tabla |-> tabla]
            ELSE [error |-> "-",
                  tabla |-> [tabla EXCEPT ![agg.cuenta_id] =
                               [agg EXCEPT !.tokens_activos =
                                   tabla[agg.cuenta_id].tokens_activos \cup nuevos]]]
    ELSE [error |-> "AttributeError", tabla |-> tabla]

\* obtener_por_id, obtener_por_email: None (<<>>) when no row matches; a row
\* that matches is mapped with Cuenta(nombre_completo=...), which Cuenta does
\* not accept: TypeError.
cuenta_obtener_por_id(tabla, cuenta_id) ==
    IF cuenta_id \in DOMAIN tabla
    THEN [error |-> "TypeError", cuenta |-> <<>>]
    ELSE [error |-> "-", cuenta |-> <<>>]

cuenta_obtener_por_email(tabla, email) ==
    IF \E c \in DOMAIN tabla : tabla[c].email = email
    THEN [error |-> "TypeError", cuenta |-> <<>>]
    ELSE [error |-> "-", cuenta |-> <<>>]

verificar_email_existe(tabla, email) == \E c \in DOMAIN tabla : tabla[c].email = email

\* The last handler call: how it ended and the tokens it returned.
IUlt(op, error, tokens) == [op |-> op, error |-> error, tokens |-> tokens]
IUltInicial == [op |-> "-", error |-> "-", tokens |-> {}]

\* ------------------------------------------------------------------- Init
\* A process that has just started (no event added yet, no request served)
\* on a database that holds posting 1, open.
Init ==
    /\ store = <<>>
    /\ puestos = (1 :> "abierto")
    /\ pdatos = (1 :> PuestoDatos("t", "d"))
    /\ puuids = 1
    /\ uuids = 0
    /\ reloj = 0
    /\ eventos = <<>>
    /\ req = [w \in Workers |-> ReqLibre]
    /\ resp = Resp("-", "-", 0, 0, "-", "-", "-")
    /\ ag = NoAgg
    /\ ult = [op |-> "-", pedido |-> "-", ok |-> FALSE]
    /\ met = MetInicial
    /\ mrepo = {}
    /\ pag = PagInicial
    /\ pult = PUlt("-", "-")
    /\ propios = [a \in Agregados |-> <<>>]
    /\ evult = EvUlt("-", "-", <<>>)
    /\ magg = MaggInicial
    /\ apps = <<>>
    /\ mult = MUltInicial
    /\ cuentas = <<>>
    /\ cag = CagInicial
    /\ iult = IUltInicial

\* ------------------------------------------------------ posting check
\* A posting check that only asks whether the posting exists.
puesto_disponible_si_existe(puesto) == puesto # <<>>

\* PostularHandler's test on what PuestoRepository.obtener_por_id returned:
\* the posting exists and its estado is "abierto".
puesto_disponible(puesto) ==
    puesto # <<>> /\ puesto[1].puesto.estado = "abierto"

\* What is recorded of a repository call that raised inside.
Falla == "failure"

\* -------------------------------------------------------- PostularHandler
\* handle from the construction of the Postulacion to guardar, once the
\* posting was found open: uuid4 and datetime.now() for the new application,
\* postularse (timeline entry and PostulacionCreada), guardar, whose exception
\* leaves the handler.
PostularConstruye(candidato_id, puesto_id) ==
    /\ reloj < MaxReloj
    /\ LET postulacion == Postulacion(uuids + 1, candidato_id, puesto_id,
                                      reloj, PENDIENTE)
           r == postularse(PostulacionAggregate(postulacion, PENDIENTE, <<>>))
           g == guardar(store, r.agg)
       IN /\ store' = g.store
          /\ eventos' = eventos \o r.eventos
          /\ resp' = Resp("postular", IF g.error # "-" THEN g.error ELSE "ok",
                          uuids + 1, puesto_id, "-", "abierto",
                          IF g.error # "-" THEN Falla ELSE "-")
    /\ uuids' = uuids + 1
    /\ reloj' = reloj + 1

\* The whole handler, as one request served alone.
Postular(candidato_id, puesto_id) ==
    /\ UNCHANGED <<puestos, pdatos, puuids, req, domvars>>
    /\ IF ~puesto_disponible(puesto_obtener_por_id(puestos, pdatos, puesto_id))
       THEN /\ resp' = Resp("postular", "ValueError", 0, puesto_id, "-", "-", "-")
            /\ UNCHANGED <<store, uuids, reloj, eventos>>
       ELSE PostularConstruye(candidato_id, puesto_id)

\* ------------------------------------- ActualizarEstadoPostulacionHandler
\* handle: the exception of obtener_por_id leaves the handler; on what a
\* query returns, ValueError for None, False for a refused cambiar_estado,
\* else guardar and True.
ActualizarEstadoPostulacion(postulacion_id, nuevo_estado) ==
    /\ UNCHANGED <<puestos, pdatos, puuids, uuids, req, domvars>>
    /\ LET o == obtener_por_id(store, postulacion_id) IN
       IF o.error # "-"
       THEN /\ resp' = Resp("postulante", o.error, postulacion_id, 0,
                            nuevo_estado, "-", Falla)
            /\ UNCHANGED <<store, reloj, eventos>>
       ELSE IF o.valor = <<>>
       THEN /\ resp' = Resp("postulante", "ValueError", postulacion_id, 0,
                            nuevo_estado, "-", "-")
            /\ UNCHANGED <<store, reloj, eventos>>
       ELSE LET c == cambiar_estado(o.valor[1], nuevo_estado, reloj) IN
            IF ~c.ok
            THEN /\ resp' = Resp("postulante", "False", postulacion_id, 0,
                                 nuevo_estado, o.valor[1].estado, "-")
                 /\ UNCHANGED <<store, reloj, eventos>>
            ELSE LET g == guardar(store, c.agg) IN
                 /\ reloj < MaxReloj
                 /\ store' = g.store
                 /\ eventos' = eventos \o c.eventos
                 /\ reloj' = reloj + 1
                 /\ resp' = Resp("postulante",
                                 IF g.error # "-" THEN g.error ELSE "True",
                                 postulacion_id, 0, nuevo_estado,
                                 o.valor[1].estado,
                                 IF g.error # "-" THEN Falla ELSE "-")

\* --------------------------------------- ActualizarEstadoReclutadorHandler
\* handle returns what actualizar_estado_postulacion returns.  The clock is
\* read after the query, which is never passed.
ActualizarEstadoReclutador(postulacion_id, nuevo_estado, comentario) ==
    /\ UNCHANGED <<puestos, pdatos, puuids, uuids, eventos, reloj, req, domvars>>
    /\ LET u == actualizar_estado_postulacion(store, postulacion_id, nuevo_estado,
                                              DescReclutador(comentario), reloj)
       IN /\ store' = u.store
          /\ resp' = Resp("reclutador", IF u.ok THEN "True" ELSE "False",
                          postulacion_id, 0, nuevo_estado, "-",
                          IF u.error # "-" THEN Falla ELSE "-")

Next ==
    \/ \E c \in CandidatoIds, p \in PuestoIds : Postular(c, p)
    \/ \E i \in PostulacionIds, e \in Pedidos : ActualizarEstadoPostulacion(i, e)
    \/ \E i \in PostulacionIds, e \in Pedidos, c \in Comentarios :
          ActualizarEstadoReclutador(i, e, c)

Spec == Init /\ [][Next]_vars

\* ------------------------------------------------- database out of reach
\* PostularHandler when the posting lookup cannot reach the database:
\* PuestoRepositoryImpl.obtener_por_id has no except clause, the
\* OperationalError of the query leaves the handler, nothing else has run.
\* The calls of PostulacionRepositoryImpl end before they reach the database.
OperationalError == "OperationalError"

PostularFalla(candidato_id, puesto_id) ==
    /\ resp' = Resp("postular", OperationalError, 0, puesto_id, "-", "-", Falla)
    /\ UNCHANGED <<store, puestos, pdatos, puuids, uuids, reloj, eventos, req, domvars>>

NextFalla ==
    \/ Next
    \/ \E c \in CandidatoIds, p \in PuestoIds : PostularFalla(c, p)

SpecFalla == Init /\ [][NextFalla]_vars

\* ------------------------------------- status updates, session by session
\* ActualizarEstadoPostulacionHandler.handle works in two database sessions,
\* the one obtener_por_id opens and closes and the one guardar opens and
\* closes; between them the aggregate lives in the request, and the sessions
\* of another request can run.  The action is the next session of worker w's
\* request: for a free worker the first, with the cambiar_estado that follows
\* it (the command is postulacion_id and nuevo_estado); for a worker that
\* holds an aggregate the second, and the answer.
ActualizarEstadoPostulacionSesion(w, postulacion_id, nuevo_estado) ==
    /\ req[w].pc = "libre" \/ req[w].tipo = "postulante"
    /\ UNCHANGED <<puestos, pdatos, puuids, uuids, domvars>>
    /\ IF req[w].pc = "libre"
       THEN LET o == obtener_por_id(store, postulacion_id) IN
            /\ UNCHANGED store
            /\ IF o.error # "-"
               THEN /\ resp' = Resp("postulante", o.error, postulacion_id, 0,
                                    nuevo_estado, "-", Falla)
                    /\ UNCHANGED <<req, reloj, eventos>>
               ELSE IF o.valor = <<>>
               THEN /\ resp' = Resp("postulante", "ValueError", postulacion_id, 0,
                                    nuevo_estado, "-", "-")
                    /\ UNCHANGED <<req, reloj, eventos>>
               ELSE LET c == cambiar_estado(o.valor[1], nuevo_estado, reloj) IN
                    IF ~c.ok
                    THEN /\ resp' = Resp("postulante", "False", postulacion_id, 0,
                                         nuevo_estado, o.valor[1].estado, "-")
                         /\ UNCHANGED <<req, reloj, eventos>>
                    ELSE /\ reloj < MaxReloj
                         /\ reloj' = reloj + 1
                         /\ eventos' = eventos \o c.eventos
                         /\ req' = [req EXCEPT ![w] =
                                       ReqActualizacion("postulante", postulacion_id,
                                                        nuevo_estado, o.valor[1].estado,
                                                        <<>>, c.agg)]
                         /\ UNCHANGED resp
       ELSE LET g == guardar(store, req[w].agg) IN
            /\ store' = g.store
            /\ resp' = Resp("postulante", IF g.error # "-" THEN g.error ELSE "True",
                            req[w].postulacion_id, 0, req[w].nuevo_estado,
                            req[w].cargado, IF g.error # "-" THEN Falla ELSE "-")
            /\ req' = [req EXCEPT ![w] = ReqLibre]
            /\ UNCHANGED <<reloj, eventos>>

\* actualizar_estado_postulacion, the one call ActualizarEstadoReclutadorHandler
\* makes, works in one session: it queries the row, and assigns and commits
\* later in the same session, with nothing that keeps another request's
\* session from running in between.  For a free worker the action is the call
\* up to its query, where an exception or a missing row ends the call with
\* False; for a worker past its query, the assignment and the commit on the
\* row as it then is.
ActualizarEstadoReclutadorSesion(w, postulacion_id, nuevo_estado, comentario) ==
    /\ req[w].pc = "libre" \/ req[w].tipo = "reclutador"
    /\ UNCHANGED <<puestos, pdatos, puuids, uuids, eventos, reloj, domvars>>
    /\ IF req[w].pc = "libre"
       THEN LET u == actualizar_estado_postulacion(store, postulacion_id, nuevo_estado,
                                                   DescReclutador(comentario), reloj)
            IN /\ UNCHANGED store
               /\ IF u.error # "-" \/ ~u.ok
                  THEN /\ resp' = Resp("reclutador", "False", postulacion_id, 0,
                                       nuevo_estado, "-",
                                       IF u.error # "-" THEN Falla ELSE "-")
                       /\ UNCHANGED req
                  ELSE /\ req' = [req EXCEPT ![w] =
                                     ReqActualizacion("reclutador", postulacion_id,
                                                      nuevo_estado, "-",
                                                      DescReclutador(comentario), NoAgg)]
                       /\ UNCHANGED resp
       ELSE LET u == actualizar_estado_postulacion(store, req[w].postulacion_id,
                                                   req[w].nuevo_estado, req[w].campos,
                                                   reloj)
            IN /\ store' = u.store
               /\ resp' = Resp("reclutador", IF u.ok THEN "True" ELSE "False",
                               req[w].postulacion_id, 0, req[w].nuevo_estado, "-",
                               IF u.error # "-" THEN Falla ELSE "-")
               /\ req' = [req EXCEPT ![w] = ReqLibre]

\* PostularHandler and the status updates of two requests, their sessions
\* interleaving.
NextCarrera ==
    \/ \E c \in CandidatoIds, p \in PuestoIds : Postular(c, p)
    \/ \E w \in Workers, i \in PostulacionIds, e \in Pedidos :
          ActualizarEstadoPostulacionSesion(w, i, e)
    \/ \E w \in Workers, i \in PostulacionIds, e \in Pedidos, c \in Comentarios :
          ActualizarEstadoReclutadorSesion(w, i, e, c)

SpecCarrera == Init /\ [][NextCarrera]_vars

\* ------------------------------------------------------ CrearPuestoHandler
\* handle.  requisitos is the command's Optional list: <<>> for None, else
\* <<the list>>; an empty list is skipped like None.  The new posting is
\* inserted and PuestoCreado is emitted.  fecha_publicacion is left out, and
\* with it the clock read that sets it.
CrearPuesto(requisitos) ==
    /\ puuids < MaxPuestos
    /\ LET nuevo == PuestoNuevo(puuids + 1)
           r == IF requisitos # <<>> /\ requisitos[1] # <<>>
                THEN actualizar_requisitos(nuevo, requisitos[1])
                ELSE [error |-> "-", agg |-> nuevo]
           g == puesto_guardar(puestos, pdatos, r.agg)
       IN /\ puestos' = g.ps
          /\ pdatos' = g.pd
          /\ eventos' = Append(eventos, PuestoCreado(puuids + 1))
          /\ resp' = Resp("crear_puesto", "ok", 0, puuids + 1, "-", "-", "-")
    /\ puuids' = puuids + 1
    /\ UNCHANGED <<store, uuids, reloj, req, domvars>>

\* PuestoRepositoryImpl.eliminar, called on its own.
EliminarPuesto(puesto_id) ==
    /\ LET e == puesto_eliminar(puestos, pdatos, puesto_id) IN
       /\ puestos' = e.ps
       /\ pdatos' = e.pd
       /\ resp' = Resp("eliminar_puesto", IF e.ok THEN "True" ELSE "False", 0,
                       puesto_id, "-", "-", "-")
    /\ UNCHANGED <<store, puuids, uuids, reloj, eventos, req, domvars>>

\* ---------------------------------------------- CambiarEstadoPuestoHandler
\* handle up to guardar: the posting is read in a session of its own;
\* ValueError for a posting that does not exist or that is already in the
\* requested state.  cerrar_puesto reads the clock.
CambiarEstadoPuestoCargar(w, puesto_id, nuevo_estado) ==
    /\ req[w].pc = "libre"
    /\ UNCHANGED <<store, puestos, pdatos, puuids, uuids, eventos, domvars>>
    /\ LET o == puesto_obtener_por_id(puestos, pdatos, puesto_id) IN
       IF o = <<>>
       THEN /\ resp' = Resp("puesto", "ValueError", 0, puesto_id, nuevo_estado, "-", "-")
            /\ UNCHANGED <<req, reloj>>
       ELSE LET c == puesto_cambiar_estado(o[1], nuevo_estado, reloj) IN
            IF ~c.ok
            THEN /\ resp' = Resp("puesto", "ValueError", 0, puesto_id, nuevo_estado,
                                 o[1].puesto.estado, "-")
                 /\ UNCHANGED <<req, reloj>>
            ELSE /\ nuevo_estado = CERRADO => reloj < MaxReloj
                 /\ reloj' = IF nuevo_estado = CERRADO THEN reloj + 1 ELSE reloj
                 /\ req' = [req EXCEPT ![w] =
                              ReqCargado("puesto", puesto_id, 0, nuevo_estado,
                                         o[1].puesto.estado, <<>>, c.agg)]
                 /\ UNCHANGED resp

\* handle from guardar on: the aggregate is written in a second session
\* (UPDATE, or INSERT when the mapping is gone) and, for a closing,
\* PuestoCerrado is emitted.  visto is the estado the table held just before.
CambiarEstadoPuestoGuardar(w) ==
    /\ req[w].pc = "cargado"
    /\ req[w].tipo = "puesto"
    /\ LET r == req[w]
           g == puesto_guardar(puestos, pdatos, r.agg)
       IN /\ puestos' = g.ps
          /\ pdatos' = g.pd
          /\ eventos' = IF r.nuevo_estado = CERRADO
                        THEN Append(eventos,
                                    PuestoCerrado(r.puesto_id, r.agg.puesto.fecha_cierre))
                        ELSE eventos
          /\ resp' = Resp("puesto", "ok", 0, r.puesto_id, r.nuevo_estado, r.cargado,
                          IF r.puesto_id \in DOMAIN puestos
                          THEN puestos[r.puesto_id] ELSE None)
    /\ req' = [req EXCEPT ![w] = ReqLibre]
    /\ UNCHANGED <<store, puuids, uuids, reloj, domvars>>

\* ------------------------------------------------- ActualizarPuestoHandler
\* The names of the fields the command supplied, in the order of the tests.
campos_actualizados(cambios, requisitos) ==
    SelectSeq(<<"titulo", "descripcion", "ubicacion", "salario_min",
                "salario_max", "moneda", "tipo_contrato">>,
              LAMBDA c : cambios[c] # None)
    \o (IF requisitos # <<>> THEN <<"requisitos">> ELSE <<>>)

\* handle up to guardar.  requisitos is the command's Optional list: <<>> for
\* None, else <<the list>>.  ValueError for a posting that does not exist or
\* is closed; otherwise the fields and requirements are set on the loaded
\* aggregate.
ActualizarPuestoCargar(w, puesto_id, cambios, requisitos) ==
    /\ req[w].pc = "libre"
    /\ UNCHANGED <<store, puestos, pdatos, puuids, uuids, reloj, eventos, domvars>>
    /\ LET o == puesto_obtener_por_id(puestos, pdatos, puesto_id) IN
       IF o = <<>> \/ o[1].puesto.estado = CERRADO
       THEN /\ resp' = Resp("actualizar_puesto", "ValueError", 0, puesto_id, "-",
                            IF o = <<>> THEN "-" ELSE CERRADO, "-")
            /\ UNCHANGED req
       ELSE LET a == actualizar_informacion(o[1].puesto, cambios)
                conInfo == [o[1] EXCEPT !.puesto = a.puesto]
                r == IF requisitos # <<>>
                     THEN actualizar_requisitos(conInfo, requisitos[1])
                     ELSE [error |-> "-", agg |-> conInfo]
            IN IF a.error # "-" \/ r.error # "-"
               THEN /\ resp' = Resp("actualizar_puesto", "ValueError", 0, puesto_id,
                                    "-", o[1].puesto.estado, "-")
                    /\ UNCHANGED req
               ELSE /\ req' = [req EXCEPT ![w] =
                                 ReqCargado("actualizar_puesto", puesto_id, 0, "-",
                                            o[1].puesto.estado,
                                            campos_actualizados(cambios, requisitos),
                                            r.agg)]
                    /\ UNCHANGED resp

\* handle from guardar on: the aggregate is written in a second session and
\* PuestoActualizado is emitted.  The dict to return reads
\* puesto.tipo_contrato.value and puesto.estado.value; estado is the str the
\* table gave, which has no attribute value: AttributeError, after the write
\* and the event.
ActualizarPuestoGuardar(w) ==
    /\ req[w].pc = "cargado"
    /\ req[w].tipo = "actualizar_puesto"
    /\ Len(eventos) < MaxEventos
    /\ LET r == req[w]
           g == puesto_guardar(puestos, pdatos, r.agg)
       IN /\ puestos' = g.ps
          /\ pdatos' = g.pd
          /\ eventos' = Append(eventos, PuestoActualizado(r.puesto_id, r.campos))
          /\ resp' = Resp("actualizar_puesto", "AttributeError", 0, r.puesto_id, "-",
                          r.cargado,
                          IF r.puesto_id \in DOMAIN puestos
                          THEN puestos[r.puesto_id] ELSE None)
    /\ req' = [req EXCEPT ![w] = ReqLibre]
    /\ UNCHANGED <<store, puuids, uuids, reloj, domvars>>

\* ------------------------------------- PostularHandler, session by session
\* handle up to its test: the posting is read in a session of its own.
PostularConsultar(w, candidato_id, puesto_id) ==
    /\ req[w].pc = "libre"
    /\ UNCHANGED <<store, puestos, pdatos, puuids, uuids, reloj, eventos, domvars>>
    /\ LET o == puesto_obtener_por_id(puestos, pdatos, puesto_id) IN
       IF ~puesto_disponible(o)
       THEN /\ resp' = Resp("postular", "ValueError", 0, puesto_id, "-", "-", "-")
            /\ UNCHANGED req
       ELSE /\ req' = [req EXCEPT ![w] =
                         ReqCargado("postular", puesto_id, candidato_id, "-",
                                    o[1].puesto.estado, <<>>, o[1])]
            /\ UNCHANGED resp

\* handle after its test.
PostularGuardar(w) ==
    /\ req[w].pc = "cargado"
    /\ req[w].tipo = "postular"
    /\ PostularConstruye(req[w].candidato_id, req[w].puesto_id)
    /\ req' = [req EXCEPT ![w] = ReqLibre]
    /\ UNCHANGED <<puestos, pdatos, puuids, domvars>>

\* What a caller passes: no field, one field, or all seven.
SinCambios == [c \in CamposPuesto |-> None]
TodosLosCambios ==
    [titulo |-> "T", descripcion |-> "D", ubicacion |-> "U", salario_min |-> "1000.0",
     salario_max |-> "2000.0", moneda |-> "USD", tipo_contrato |-> "temporal"]
CambiosSet ==
    {SinCambios, TodosLosCambios,
     [SinCambios EXCEPT !.titulo = "T"], [SinCambios EXCEPT !.salario_min = "1000.0"]}
\* A list of requirement dicts: empty, or one dict that leaves two keys out.
RequisitosSet == {<<>>, <<[tipo |-> "habilidad"]>>}

\* CrearPuestoHandler, the repository's eliminar, CambiarEstadoPuestoHandler
\* and PostularHandler, the sessions of two requests interleaving.
NextPuesto ==
    \/ \E r \in {<<>>} \cup {<<x>> : x \in RequisitosSet} : CrearPuesto(r)
    \/ \E p \in PuestoIds : EliminarPuesto(p)
    \/ \E w \in Workers, p \in PuestoIds, e \in EstadoPuestoEnum :
          CambiarEstadoPuestoCargar(w, p, e)
    \/ \E w \in Workers : CambiarEstadoPuestoGuardar(w)
    \/ \E w \in Workers, c \in CandidatoIds, p \in PuestoIds : PostularConsultar(w, c, p)
    \/ \E w \in Workers : PostularGuardar(w)

SpecPuesto == Init /\ [][NextPuesto]_vars

\* --------------------------------------- one aggregate and its public methods
Textos == {<<"nota">>}
FechasNuevas == {100}

Ult(op, pedido, ok) == [op |-> op, pedido |-> pedido, ok |-> ok]

sysvars == <<store, puestos, pdatos, puuids, uuids, req, resp, met, mrepo, pvars, masvars>>

\* The aggregate as PostularHandler builds it, then postularse.
DomCrear(candidato_id, puesto_id) ==
    /\ ult.op = "-"
    /\ reloj < MaxRelojDom
    /\ LET postulacion == Postulacion(1, candidato_id, puesto_id, reloj, PENDIENTE)
           r == postularse(PostulacionAggregate(postulacion, PENDIENTE, <<>>))
       IN /\ ag' = r.agg
          /\ eventos' = eventos \o r.eventos
          /\ ult' = Ult("postularse", "-", TRUE)
    /\ reloj' = reloj + 1
    /\ UNCHANGED sysvars

DomCambiarEstado(nuevo_estado) ==
    /\ ult.op # "-"
    /\ LET c == cambiar_estado(ag, nuevo_estado, reloj) IN
       /\ c.ok => reloj < MaxRelojDom
       /\ ag' = c.agg
       /\ eventos' = eventos \o c.eventos
       /\ reloj' = IF c.ok THEN reloj + 1 ELSE reloj
       /\ ult' = Ult("cambiar_estado", nuevo_estado, c.ok)
    /\ UNCHANGED sysvars

\* Postulacion.actualizar_estado, called on the entity the aggregate exposes:
\* the entity's estado changes; the aggregate's estado, the timeline and the
\* events do not.
DomActualizarEstado(nuevo_estado) ==
    /\ ult.op # "-"
    /\ LET r == actualizar_estado(ag.postulacion, nuevo_estado) IN
       /\ ag' = [ag EXCEPT !.postulacion = r.post]
       /\ ult' = Ult("actualizar_estado", nuevo_estado, r.ok)
    /\ UNCHANGED <<reloj, eventos, sysvars>>

DomRegistrarEvento(descripcion) ==
    /\ ult.op # "-"
    /\ reloj < MaxRelojDom
    /\ ag' = registrar_evento(ag, descripcion, reloj)
    /\ reloj' = reloj + 1
    /\ ult' = Ult("registrar_evento", "-", TRUE)
    /\ UNCHANGED <<eventos, sysvars>>

DomActualizarDescripcion(i, nueva_descripcion) ==
    /\ i \in DOMAIN ag.linea_de_tiempo
    /\ ag' = [ag EXCEPT !.linea_de_tiempo = actualizar_descripcion(@, i, nueva_descripcion)]
    /\ ult' = Ult("actualizar_descripcion", "-", TRUE)
    /\ UNCHANGED <<reloj, eventos, sysvars>>

DomCambiarFecha(i, nueva_fecha) ==
    /\ i \in DOMAIN ag.linea_de_tiempo
    /\ ag' = [ag EXCEPT !.linea_de_tiempo = cambiar_fecha(@, i, nueva_fecha)]
    /\ ult' = Ult("cambiar_fecha", "-", TRUE)
    /\ UNCHANGED <<reloj, eventos, sysvars>>

NextDom ==
    \/ \E c \in CandidatoIds : DomCrear(c, 1)
    \/ \E e \in Pedidos : DomCambiarEstado(e)
    \/ \E e \in EstadoPostulacionEnum : DomActualizarEstado(e)
    \/ \E d \in Textos : DomRegistrarEvento(d)
    \/ \E i \in 1..MaxEditados, d \in Textos : DomActualizarDescripcion(i, d)
    \/ \E i \in 1..MaxEditados, f \in FechasNuevas : DomCambiarFecha(i, f)

SpecDom == Init /\ [][NextDom]_vars

\* ------------------------------ one PuestoAggregate and its public methods
otrosPuestoDom ==
    <<store, puestos, pdatos, puuids, uuids, eventos, req, resp, ag, ult, met, mrepo, masvars>>

\* No handler call has been made or is under way.
SinPedidos == resp.op = "-" /\ \A w \in Workers : req[w].pc = "libre"

PagActualizarInformacion(cambios) ==
    /\ SinPedidos
    /\ LET a == actualizar_informacion(pag.puesto, cambios) IN
       /\ pag' = [pag EXCEPT !.puesto = a.puesto]
       /\ pult' = PUlt("actualizar_informacion", a.error)
    /\ UNCHANGED <<reloj, otrosPuestoDom>>

PagAgregarRequisito(tipo, descripcion, es_obligatorio) ==
    /\ SinPedidos
    /\ Len(pag.requisitos) < MaxRequisitos
    /\ LET a == agregar_requisito(pag, tipo, descripcion, es_obligatorio) IN
       /\ pag' = a.agg
       /\ pult' = PUlt("agregar_requisito", a.error)
    /\ UNCHANGED <<reloj, otrosPuestoDom>>

PagActualizarRequisitos(nuevos_requisitos) ==
    /\ SinPedidos
    /\ LET a == actualizar_requisitos(pag, nuevos_requisitos) IN
       /\ pag' = a.agg
       /\ pult' = PUlt("actualizar_requisitos", a.error)
    /\ UNCHANGED <<reloj, otrosPuestoDom>>

PagCambiarEstado(nuevo_estado) ==
    /\ SinPedidos
    /\ LET c == puesto_cambiar_estado(pag, nuevo_estado, reloj) IN
       /\ (c.ok /\ nuevo_estado = CERRADO) => reloj < MaxRelojDom
       /\ pag' = c.agg
       /\ reloj' = IF c.ok /\ nuevo_estado = CERRADO THEN reloj + 1 ELSE reloj
       /\ pult' = PUlt("cambiar_estado", IF c.ok THEN "-" ELSE "False")
    /\ UNCHANGED otrosPuestoDom

\* The aggregate under test, or the two handlers on the stored postings: an
\* update request and a change-of-state request, their sessions interleaving.
NextPuestoDom ==
    \/ \E c \in CambiosSet : PagActualizarInformacion(c)
    \/ \E o \in BOOLEAN : PagAgregarRequisito("experiencia", "x", o)
    \/ \E r \in RequisitosSet : PagActualizarRequisitos(r)
    \/ \E e \in EstadoPuestoEnum : PagCambiarEstado(e)
    \/ /\ pult.op = "-"
       /\ \E p \in PuestoIds, c \in {SinCambios, TodosLosCambios},
             r \in {<<>>, <<<<[tipo |-> "habilidad"]>>>>} :
             ActualizarPuestoCargar(1, p, c, r)
    \/ /\ pult.op = "-"
       /\ ActualizarPuestoGuardar(1)
    \/ /\ pult.op = "-"
       /\ \E p \in PuestoIds, e \in EstadoPuestoEnum : CambiarEstadoPuestoCargar(2, p, e)
    \/ /\ pult.op = "-"
       /\ CambiarEstadoPuestoGuardar(2)

SpecPuestoDom == Init /\ [][NextPuestoDom]_vars

\* ------------------------------------- aggregates of several types at once
\* The events the aggregates of the three types emit.
EventosDe(a) ==
    IF a = "PostulacionAggregate 1" THEN {PostulacionCreada(1)}
    ELSE IF a = "PostulacionAggregate 2"
    THEN {EstadoPostulacionActualizado(2, PENDIENTE, EN_REVISION)}
    ELSE IF a = "PuestoAggregate 1" THEN {PuestoCerrado(1, 0)}
    ELSE {MetricaActualizada(1, "postulacion_creada")}

otrosEventos ==
    <<store, puestos, pdatos, puuids, uuids, reloj, req, resp, ag, ult, met, mrepo, pvars, mvars, ivars>>

EvAddEvent(a, event) ==
    /\ Len(self_events(propios, eventos, a)) < MaxEventos
    /\ LET r == add_event(propios, eventos, a, event) IN
       /\ propios' = r.props
       /\ eventos' = r.clase
    /\ evult' = EvUlt("add_event", a, <<event>>)
    /\ UNCHANGED otrosEventos

EvClearEvents(a) ==
    /\ LET r == clear_events(propios, eventos, a) IN
       /\ propios' = r.props
       /\ eventos' = r.clase
    /\ evult' = EvUlt("clear_events", a, <<>>)
    /\ UNCHANGED otrosEventos

EvGetEvents(a) ==
    /\ evult' = EvUlt("get_events", a, get_events(propios, eventos, a))
    /\ UNCHANGED <<propios, eventos, otrosEventos>>

NextEventos ==
    \/ \E a \in Agregados : \E event \in EventosDe(a) : EvAddEvent(a, event)
    \/ \E a \in Agregados : EvClearEvents(a)
    \/ \E a \in Agregados : EvGetEvents(a)

SpecEventos == Init /\ [][NextEventos]_vars

\* --------------------------- one MetricaAggregate fed with a candidate's events
\* The applications of candidate 1 go through their lifecycles; each creation,
\* each successful transition and each deletion is applied to the aggregate.
\* ELIMINADA marks an application that was deleted.
ELIMINADA == "eliminada"

Regla(nombre, umbral) == [nombre |-> nombre, umbral |-> umbral]
\* Rule lists as a caller may pass them: four rules, one of them with a name
\* verificar_logro knows no counter for; and one rule twice.
ReglasSet ==
    {<<Regla("Primeras postulaciones", 1), Regla("Entrevistado Frecuente", 1),
       Regla("Primera Oferta", 1), Regla("Postulante Activo", 1)>>,
     <<Regla("Primera Oferta", 1), Regla("Primera Oferta", 1)>>}

otrosMetAgg ==
    <<store, puestos, pdatos, puuids, uuids, reloj, req, resp, ag, ult, met, mrepo, pvars, evars, ivars>>

MaCrear ==
    /\ Len(apps) < MaxApps
    /\ apps' = Append(apps, PENDIENTE)
    /\ LET r == aplicar_postulacion_creada(magg) IN
       /\ magg' = r.agg
       /\ eventos' = eventos \o r.eventos
    /\ mult' = MUlt("aplicar_postulacion_creada", <<>>, <<>>)
    /\ UNCHANGED otrosMetAgg

MaTransicion(i, estado_nuevo) ==
    /\ i \in DOMAIN apps
    /\ apps[i] # ELIMINADA
    /\ es_valido(apps[i], estado_nuevo)
    /\ apps' = [apps EXCEPT ![i] = estado_nuevo]
    /\ LET r == aplicar_estado_actualizado(magg, apps[i], estado_nuevo) IN
       /\ magg' = r.agg
       /\ eventos' = eventos \o r.eventos
    /\ mult' = MUlt("aplicar_estado_actualizado", <<apps[i], estado_nuevo>>, <<>>)
    /\ UNCHANGED otrosMetAgg

MaEliminar(i) ==
    /\ i \in DOMAIN apps
    /\ apps[i] # ELIMINADA
    /\ apps' = [apps EXCEPT ![i] = ELIMINADA]
    /\ LET r == aplicar_postulacion_eliminada(magg) IN
       /\ magg' = r.agg
       /\ eventos' = eventos \o r.eventos
    /\ mult' = MUlt("aplicar_postulacion_eliminada", <<>>, <<>>)
    /\ UNCHANGED otrosMetAgg

MaEvaluarLogros(lista_reglas) ==
    /\ LET r == evaluar_logros(magg, lista_reglas) IN
       /\ magg' = r.agg
       /\ eventos' = eventos \o r.eventos
       /\ mult' = MUlt("evaluar_logros", lista_reglas, r.nuevos_logros)
    /\ UNCHANGED <<apps, otrosMetAgg>>

NextMetAgg ==
    \/ MaCrear
    \/ \E i \in 1..MaxApps, e \in EstadoPostulacionEnum : MaTransicion(i, e)
    \/ \E i \in 1..MaxApps : MaEliminar(i)
    \/ \E l \in ReglasSet : MaEvaluarLogros(l)

SpecMetAgg == Init /\ [][NextMetAgg]_vars

\* ---------------------------------------------- IAM: aggregate and handlers
otrosIam ==
    <<store, puestos, pdatos, puuids, req, resp, ag, ult, met, mrepo, pvars, evars, mvars>>

EmailsRegistro == {"a@x.pe"}
EmailsLogin == {"a@x.pe", "z@x.pe"}
CuentaIds == {1, 2}
TiposToken == {"access", "refresh"}
TokenValues == {"jwt 1", "jwt 2"}

\* One CuentaAggregate and its methods, no repository involved.
CagCreacionCuenta(email, password) ==
    /\ iult.op = "-"
    /\ cag.email = ""
    /\ es_password_fuerte(password)
    /\ hashear_password(password) # <<>>
    /\ LET r == aplicar_creacion_cuenta(cag, email, hashear_password(password)[1]) IN
       /\ cag' = r.agg
       /\ eventos' = eventos \o r.eventos
    /\ UNCHANGED <<cuentas, iult, uuids, reloj, otrosIam>>

CagIntentoFallido ==
    /\ cag.email # ""
    /\ cag.intentos_fallidos < MaxIntentos
    /\ LET r == aplicar_intento_fallido(cag) IN
       /\ Len(eventos) + Len(r.eventos) <= MaxEventos
       /\ cag' = r.agg
       /\ eventos' = eventos \o r.eventos
    /\ UNCHANGED <<cuentas, iult, uuids, reloj, otrosIam>>

CagLoginExitoso ==
    /\ cag.email # ""
    /\ Len(eventos) < MaxEventos
    /\ LET r == aplicar_login_exitoso(cag) IN
       /\ cag' = r.agg
       /\ eventos' = eventos \o r.eventos
    /\ UNCHANGED <<cuentas, iult, uuids, reloj, otrosIam>>

CagVerificacionCuenta ==
    /\ cag.email # ""
    /\ LET r == aplicar_verificacion_cuenta(cag) IN
       /\ Len(eventos) + Len(r.eventos) <= MaxEventos
       /\ cag' = r.agg
       /\ eventos' = eventos \o r.eventos
    /\ UNCHANGED <<cuentas, iult, uuids, reloj, otrosIam>>

CagGeneracionToken(token_value, tipo_token) ==
    /\ cag.email # ""
    /\ Len(eventos) < MaxEventos
    /\ LET r == aplicar_generacion_token(cag, token_value, tipo_token, uuids + 1) IN
       /\ cag' = r.agg
       /\ eventos' = eventos \o r.eventos
    /\ uuids' = uuids + 1
    /\ UNCHANGED <<cuentas, iult, reloj, otrosIam>>

CagCambioPassword(password_nuevo) ==
    /\ cag.email # ""
    /\ Len(eventos) < MaxEventos
    /\ es_password_fuerte(password_nuevo)
    /\ hashear_password(password_nuevo) # <<>>
    /\ LET r == aplicar_cambio_password(cag, hashear_password(password_nuevo)[1]) IN
       /\ cag' = r.agg
       /\ eventos' = eventos \o r.eventos
    /\ UNCHANGED <<cuentas, iult, uuids, reloj, otrosIam>>

\* CrearCuentaHandler.handle: the event is added before guardar is called.
CrearCuenta(email, password) ==
    /\ cag = CagInicial
    /\ UNCHANGED <<cag, reloj, otrosIam>>
    /\ IF verificar_email_existe(cuentas, email)
          \/ ~ es_password_fuerte(password)
          \/ hashear_password(password) = <<>>
       THEN /\ iult' = IUlt("crear_cuenta", "ValueError", {})
            /\ UNCHANGED <<cuentas, eventos, uuids>>
       ELSE LET nuevo == CuentaAggregate(uuids + 1, "", SinHash, NO_VERIFICADA)
                r == aplicar_creacion_cuenta(nuevo, email, hashear_password(password)[1])
                g == cuenta_guardar(cuentas, r.agg)
            IN /\ Len(eventos) < MaxEventos
               /\ uuids' = uuids + 1
               /\ eventos' = eventos \o r.eventos
               /\ cuentas' = g.tabla
               /\ iult' = IUlt("crear_cuenta", g.error, {})

\* GenerarTokenHandler.handle.  The token is a refresh token for tipo_token
\* "refresh" and an access token for any other; ahora is the clock reading
\* its expiry is counted from.
GenerarToken(cuenta_id, tipo_token) ==
    /\ cag = CagInicial
    /\ UNCHANGED <<cag, otrosIam>>
    /\ LET q == cuenta_obtener_por_id(cuentas, cuenta_id) IN
       IF q.error # "-"
       THEN /\ iult' = IUlt("generar_token", q.error, {})
            /\ UNCHANGED <<cuentas, eventos, uuids, reloj>>
       ELSE IF q.cuenta = <<>> \/ q.cuenta[1].estado = SUSPENDIDA
       THEN /\ iult' = IUlt("generar_token", "ValueError", {})
            /\ UNCHANGED <<cuentas, eventos, uuids, reloj>>
       ELSE \E ahora \in {reloj, reloj + 1} :
            LET token_value ==
                    IF tipo_token = "refresh"
                    THEN crear_refresh_token(cuenta_id, q.cuenta[1].email, ahora)
                    ELSE crear_access_token(cuenta_id, q.cuenta[1].email, ahora)
                r == aplicar_generacion_token(q.cuenta[1], token_value, tipo_token,
                                              uuids + 1)
                g == cuenta_guardar(cuentas, r.agg)
            IN /\ ahora <= MaxReloj
               /\ reloj' = ahora
               /\ uuids' = uuids + 1
               /\ cuentas' = g.tabla
               /\ eventos' = eventos \o r.eventos
               /\ iult' = IUlt("generar_token", g.error,
                               IF g.error = "-" THEN {token_value} ELSE {})

\* VerificarCuentaHandler.handle
VerificarCuenta(cuenta_id) ==
    /\ cag = CagInicial
    /\ UNCHANGED <<cag, uuids, reloj, otrosIam>>
    /\ LET q == cuenta_obtener_por_id(cuentas, cuenta_id) IN
       IF q.error # "-"
       THEN /\ iult' = IUlt("verificar_cuenta", q.error, {})
            /\ UNCHANGED <<cuentas, eventos>>
       ELSE IF q.cuenta = <<>> \/ ~ aplicar_verificacion_cuenta(q.cuenta[1]).ret
       THEN /\ iult' = IUlt("verificar_cuenta", "ValueError", {})
            /\ UNCHANGED <<cuentas, eventos>>
       ELSE LET r == aplicar_verificacion_cuenta(q.cuenta[1])
                g == cuenta_guardar(cuentas, r.agg)
            IN /\ cuentas' = g.tabla
               /\ eventos' = eventos \o r.eventos
               /\ iult' = IUlt("verificar_cuenta", g.error, {})

\* LoginHandler.handle.  The ValueError of verificar_password leaves the
\* handler before aplicar_intento_fallido; a password that does not match is
\* counted and saved before the handler's own ValueError.
Login(email, password) ==
    /\ cag = CagInicial
    /\ UNCHANGED <<cag, otrosIam>>
    /\ LET q == cuenta_obtener_por_email(cuentas, email) IN
       IF q.error # "-"
       THEN /\ iult' = IUlt("login", q.error, {})
            /\ UNCHANGED <<cuentas, eventos, uuids, reloj>>
       ELSE IF q.cuenta = <<>>
       THEN /\ iult' = IUlt("login", "ValueError", {})
            /\ UNCHANGED <<cuentas, eventos, uuids, reloj>>
       ELSE IF verificar_password(password, q.cuenta[1].hash_password).error # "-"
       THEN /\ iult' = IUlt("login", "ValueError", {})
            /\ UNCHANGED <<cuentas, eventos, uuids, reloj>>
       ELSE IF ~ verificar_password(password, q.cuenta[1].hash_password).valor
       THEN LET r == aplicar_intento_fallido(q.cuenta[1])
                g == cuenta_guardar(cuentas, r.agg)
            IN /\ cuentas' = g.tabla
               /\ eventos' = eventos \o r.eventos
               /\ iult' = IUlt("login", IF g.error = "-" THEN "ValueError" ELSE g.error, {})
               /\ UNCHANGED <<uuids, reloj>>
       ELSE IF q.cuenta[1].estado = SUSPENDIDA \/ q.cuenta[1].estado = INACTIVA
       THEN /\ iult' = IUlt("login", "ValueError", {})
            /\ UNCHANGED <<cuentas, eventos, uuids, reloj>>
       ELSE \E ahora \in {reloj, reloj + 1} :
            LET access_token == crear_access_token(q.cuenta[1].cuenta_id, email, ahora)
                refresh_token == crear_refresh_token(q.cuenta[1].cuenta_id, email, ahora)
                a == aplicar_login_exitoso(q.cuenta[1])
                b == aplicar_generacion_token(a.agg, access_token, "access", uuids + 1)
                c == aplicar_generacion_token(b.agg, refresh_token, "refresh", uuids + 2)
                g == cuenta_guardar(cuentas, c.agg)
            IN /\ ahora <= MaxReloj
               /\ reloj' = ahora
               /\ uuids' = uuids + 2
               /\ cuentas' = g.tabla
               /\ eventos' = eventos \o a.eventos \o b.eventos \o c.eventos
               /\ iult' = IUlt("login", g.error,
                               IF g.error = "-" THEN {access_token, refresh_token}
                               ELSE {})

\* CambiarPasswordHandler.handle
CambiarPassword(cuenta_id, password_actual, password_nuevo) ==
    /\ cag = CagInicial
    /\ UNCHANGED <<cag, uuids, reloj, otrosIam>>
    /\ LET q == cuenta_obtener_por_id(cuentas, cuenta_id) IN
       IF q.error # "-"
       THEN /\ iult' = IUlt("cambiar_password", q.error, {})
            /\ UNCHANGED <<cuentas, eventos>>
       ELSE IF q.cuenta = <<>>
       THEN /\ iult' = IUlt("cambiar_password", "ValueError", {})
            /\ UNCHANGED <<cuentas, eventos>>
       ELSE IF \/ verificar_password(password_actual, q.cuenta[1].hash_password).error # "-"
               \/ ~ verificar_password(password_actual, q.cuenta[1].hash_password).valor
               \/ ~ es_password_fuerte(password_nuevo)
               \/ hashear_password(password_nuevo) = <<>>
       THEN /\ iult' = IUlt("cambiar_password", "ValueError", {})
            /\ UNCHANGED <<cuentas, eventos>>
       ELSE LET r == aplicar_cambio_password(q.cuenta[1],
                                             hashear_password(password_nuevo)[1])
                g == cuenta_guardar(cuentas, r.agg)
            IN /\ cuentas' = g.tabla
               /\ eventos' = eventos \o r.eventos
               /\ iult' = IUlt("cambiar_password", g.error, {})

\* The aggregate under test, or the handlers on table cuentas.
NextIam ==
    \/ \E e \in EmailsRegistro, p \in Passwords : CagCreacionCuenta(e, p)
    \/ CagIntentoFallido
    \/ CagLoginExitoso
    \/ CagVerificacionCuenta
    \/ \E v \in TokenValues, t \in TiposToken : CagGeneracionToken(v, t)
    \/ \E p \in Passwords : CagCambioPassword(p)
    \/ \E e \in EmailsRegistro, p \in Passwords : CrearCuenta(e, p)
    \/ \E c \in CuentaIds, t \in TiposToken : GenerarToken(c, t)
    \/ \E c \in CuentaIds : VerificarCuenta(c)
    \/ \E e \in EmailsLogin, p \in Passwords : Login(e, p)
    \/ \E c \in CuentaIds, p \in Passwords, n \in Passwords : CambiarPassword(c, p, n)

SpecIam == Init /\ [][NextIam]_vars

\* ------------------------------------------- the metrics queries and commands
metotros ==
    <<store, puestos, pdatos, puuids, uuids, reloj, eventos, req, resp, ag, ult, pvars, masvars>>

MetObtenerPorPostulante ==
    /\ met' = Met("obtener_por_postulante", <<1>>, obtener_por_postulante(store, 1))
    /\ UNCHANGED <<mrepo, metotros>>

MetContadorRechazos ==
    /\ met' = Met("ContadorRechazos", <<1>>, ContadorRechazos(store, 1))
    /\ UNCHANGED <<mrepo, metotros>>

MetConsultarResumen ==
    /\ met' = Met("ConsultarResumenMetricas", <<1>>, ConsultarResumenMetricas(store, 1))
    /\ UNCHANGED <<mrepo, metotros>>

MetRecalcular ==
    /\ met' = Met("RecalcularMetricas", <<1>>, RecalcularMetricas(store, 1))
    /\ UNCHANGED <<mrepo, metotros>>

MetListarLogros ==
    /\ met' = Met("ListarLogros", <<1>>, ListarLogros(store, 1))
    /\ UNCHANGED <<mrepo, metotros>>

\* _calcular_logros called on the repository instance with counters of the
\* caller's choosing.
MetCalcularLogros(total_postulaciones, total_entrevistas, total_exitos, total_rechazos) ==
    /\ LET r == _calcular_logros(mrepo, total_postulaciones, total_entrevistas,
                                 total_exitos, total_rechazos)
       IN /\ mrepo' = r.self
          /\ met' = Met("_calcular_logros",
                        <<total_postulaciones, total_entrevistas, total_exitos,
                          total_rechazos>>,
                        Valor(r.logros))
    /\ UNCHANGED metotros

NextMet ==
    \/ \E t \in 0..MaxTotalMet, e \in 0..MaxEntrevistasMet, x \in 0..MaxExitosMet,
          r \in 0..1 : MetCalcularLogros(t, e, x, r)
    \/ MetObtenerPorPostulante
    \/ MetContadorRechazos
    \/ MetConsultarResumen
    \/ MetRecalcular
    \/ MetListarLogros

SpecMet == Init /\ [][NextMet]_vars

\* ======================================================================
\* The specified behaviour, and the properties checked against the model.
\* ======================================================================

\* The transition table as specified; "rejected" is either rejection label.
Rechazos == {RECHAZADO, RECHAZO}
Terminales == {OFERTA} \cup Rechazos
TablaSpec ==
    [s \in EstadoPostulacionEnum |->
        IF s = PENDIENTE THEN {EN_REVISION} \cup Rechazos
        ELSE IF s = EN_REVISION THEN {ACEPTADO, ENTREVISTA} \cup Rechazos
        ELSE IF s = ACEPTADO THEN {ENTREVISTA, OFERTA}
        ELSE IF s = ENTREVISTA THEN {OFERTA} \cup Rechazos
        ELSE {}]

EsPrefijo(a, b) == Len(a) <= Len(b) /\ SubSeq(b, 1, Len(a)) = a

\* The ids PostularHandler has given to the applications it built; each was
\* built in state pendiente.
Creadas == 1..uuids

\* C1: a requested state that the table does not allow from the current state
\* makes cambiar_estado return False with the aggregate (state and timeline)
\* as it was and no event, and makes ActualizarEstadoPostulacionHandler,
\* called for an application PostularHandler built, return False with nothing
\* saved.
C1_SinEfectosParciales ==
    /\ [](\A s \in EstadoPostulacionEnum, e \in Pedidos :
            e \notin TablaSpec[s] =>
                LET a == PostulacionAggregate(Postulacion(1, 1, 1, 0, s), s,
                                              <<Hito(0, DescCreada(PENDIENTE))>>)
                    c == cambiar_estado(a, e, reloj)
                IN ~c.ok /\ c.agg = a /\ c.eventos = <<>>)
    /\ [][(/\ resp'.op = "postulante"
           /\ resp'.postulacion_id \in Creadas
           /\ resp'.nuevo_estado \notin TablaSpec[PENDIENTE])
          => (/\ resp'.resultado = "False"
              /\ store' = store
              /\ eventos' = eventos
              /\ reloj' = reloj)]_vars

\* C2: es_valido accepts a (current, requested) pair exactly when the pair is
\* in the specified table, both for every pair of values and for every
\* cambiar_estado and actualizar_estado call made on the aggregate; a request
\* for the current state is never accepted.
C2_TablaExacta ==
    /\ [](\A s \in EstadoPostulacionEnum, e \in Pedidos :
            /\ es_valido(s, e) <=> (e \in EstadoPostulacionEnum /\ e \in TablaSpec[s])
            /\ ~es_valido(s, s))
    /\ [][ult'.op \in {"cambiar_estado", "actualizar_estado"} =>
            (ult'.ok <=> ult'.pedido \in TablaSpec[ag.postulacion.estado])]_vars

\* An interview that ended in the second rejection label.
C2_Testigo ==
    /\ ult = Ult("cambiar_estado", RECHAZO, TRUE)
    /\ ag.estado = RECHAZO
    /\ \E i \in DOMAIN ag.linea_de_tiempo :
          ag.linea_de_tiempo[i].descripcion = DescActualizado(ENTREVISTA, RECHAZO)

\* C4: a successful cambiar_estado appends exactly one timeline entry, last,
\* whose description names the state the aggregate held before the call and
\* the new state, stamped with the time of the call; the aggregate and its
\* entity then hold the requested state.
C4_UnHitoAlFinal ==
    [][(ult'.op = "cambiar_estado" /\ ult'.ok) =>
          LET n == Len(ag.linea_de_tiempo) IN
          /\ Len(ag'.linea_de_tiempo) = n + 1
          /\ SubSeq(ag'.linea_de_tiempo, 1, n) = ag.linea_de_tiempo
          /\ ag'.linea_de_tiempo[n + 1] =
                Hito(reloj, DescActualizado(ag.estado, ult'.pedido))
          /\ ag'.estado = ult'.pedido
          /\ ag'.postulacion.estado = ult'.pedido]_vars

C4_Testigo ==
    /\ ult = Ult("cambiar_estado", ENTREVISTA, TRUE)
    /\ ag.estado = ENTREVISTA
    /\ Len(ag.linea_de_tiempo) = 3
    /\ ag.linea_de_tiempo[3].descripcion = DescActualizado(EN_REVISION, ENTREVISTA)

\* C5: PostularHandler on an open posting ends normally and has saved an
\* application in state pendiente whose timeline has exactly one entry,
\* stamped with the application's creation time.
C5_CreadaPendiente ==
    (resp.op = "postular" /\ resp.resultado # "ValueError") =>
        /\ resp.resultado = "ok"
        /\ \E i \in DOMAIN store :
              /\ store[i].postulacion_id = resp.postulacion_id
              /\ store[i].estado = PENDIENTE
              /\ store[i].hitos =
                    <<Hito(store[i].fecha_postulacion, DescCreada(PENDIENTE))>>

\* C6: in a terminal state (oferta, rechazado, rechazo) no requested value is
\* accepted: cambiar_estado returns False and changes nothing, so neither the
\* state of the aggregate nor that of its entity changes again once it is
\* terminal.
C6_TerminalesSinSalida ==
    /\ [](\A s \in Terminales, e \in Pedidos : ~es_valido(s, e))
    /\ [][(ag.estado \in Terminales \/ ag.postulacion.estado \in Terminales) =>
            /\ ag'.estado = ag.estado
            /\ ag'.postulacion.estado = ag.postulacion.estado
            /\ ult'.op = "cambiar_estado" => (~ult'.ok /\ ag' = ag)]_vars

\* The scenario of the specification: created, en_revision, entrevista,
\* oferta (timeline of four entries), then a request for rechazado is refused.
C6_Testigo ==
    /\ ult = Ult("cambiar_estado", RECHAZADO, FALSE)
    /\ ag.estado = OFERTA
    /\ Len(ag.linea_de_tiempo) = 4
    /\ ag.linea_de_tiempo[2].descripcion = DescActualizado(PENDIENTE, EN_REVISION)
    /\ ag.linea_de_tiempo[3].descripcion = DescActualizado(EN_REVISION, ENTREVISTA)
    /\ ag.linea_de_tiempo[4].descripcion = DescActualizado(ENTREVISTA, OFERTA)

\* C7: the timeline has one entry from the creation and one from each
\* successful state transition, and none from anything else: an operation
\* adds an entry exactly when it is postularse or a cambiar_estado that
\* returned True, and then it adds one.
C7_UnHitoPorTransicion ==
    [][Len(ag'.linea_de_tiempo) =
          Len(ag.linea_de_tiempo)
          + (IF \/ ult'.op = "postularse"
                \/ (ult'.op = "cambiar_estado" /\ ult'.ok)
             THEN 1 ELSE 0)]_vars

\* C8: the timeline is append-only and ordered by insertion: every operation
\* available on an application, the two methods of Hito among them, leaves
\* the entries already present (description, date and order) unchanged as a
\* prefix of the resulting timeline.
C8_SoloAgregaTodas ==
    [][EsPrefijo(ag.linea_de_tiempo, ag'.linea_de_tiempo)]_vars

\* C9: ActualizarEstadoPostulacionHandler, called for an application
\* PostularHandler built and a state the table permits from pendiente,
\* returns True, and the store then holds exactly one row for that
\* application, with the requested state.
C9_UnaSolaFila ==
    (/\ resp.op = "postulante"
     /\ resp.postulacion_id \in Creadas
     /\ resp.nuevo_estado \in TablaSpec[PENDIENTE]) =>
        /\ resp.resultado = "True"
        /\ Cardinality({i \in DOMAIN store :
                          store[i].postulacion_id = resp.postulacion_id}) = 1
        /\ \A i \in DOMAIN store :
              store[i].postulacion_id = resp.postulacion_id =>
                 store[i].estado = resp.nuevo_estado

\* A step in which a status update of worker w, by either handler, gets past
\* its query and comes to hold application i.
CargaLaPostulacion(w, i) ==
    /\ \/ \E e \in Pedidos : ActualizarEstadoPostulacionSesion(w, i, e)
       \/ \E e \in Pedidos, c \in Comentarios :
             ActualizarEstadoReclutadorSesion(w, i, e, c)
    /\ req'[w].pc = "cargado"
    /\ req'[w].postulacion_id = i

\* A step in which the status update worker w holds writes and answers True
\* for the state it asked for.
GuardaConExito(w) ==
    /\ \/ ActualizarEstadoPostulacionSesion(w, req[w].postulacion_id, req[w].nuevo_estado)
       \/ \E c \in Comentarios :
             ActualizarEstadoReclutadorSesion(w, req[w].postulacion_id,
                                              req[w].nuevo_estado, c)
    /\ resp'.resultado = "True"
    /\ resp'.postulacion_id = req[w].postulacion_id
    /\ resp'.nuevo_estado = req[w].nuevo_estado

\* Worker w holds a status update of application i, loaded and not yet saved.
TieneCargada(w, i) ==
    /\ req[w].pc = "cargado"
    /\ req[w].tipo \in {"postulante", "reclutador"}
    /\ req[w].postulacion_id = i

\* C10: two status updates of one application can race.  Step by step, the
\* interleaving is possible: (1) once PostularHandler has built application
\* i, a status update can load it; (2) while one request holds i, loaded and
\* not saved, the other request can load i as well; (3) a request that holds
\* i can save and answer True for the state it asked for, whatever the other
\* request holds or has saved since, so that the later save wins.
C10_CarreraPosible ==
    \A i \in Creadas : \A w \in Workers :
        LET otro == CHOOSE v \in Workers : v # w IN
        /\ (req[w].pc = "libre" /\ req[otro].pc = "libre" /\ reloj < MaxReloj)
              => ENABLED CargaLaPostulacion(w, i)
        /\ (req[w].pc = "libre" /\ TieneCargada(otro, i) /\ reloj < MaxReloj)
              => ENABLED CargaLaPostulacion(w, i)
        /\ TieneCargada(w, i) => ENABLED GuardaConExito(w)

\* The posting exists and is open, as the specification words it.
PuestoAbierto(p) == p \in DOMAIN puestos /\ puestos[p] = ABIERTO

\* The ids of the stored applications to a posting.
PostulacionesA(st, p) ==
    {st[i].postulacion_id : i \in {j \in DOMAIN st : st[j].puesto_id = p}}

\* C11: PostularHandler goes on to build an application only for a posting
\* that exists and is open when it looks it up; for a posting that does not
\* resolve or is not open it raises ValueError and store, events and ids are
\* as before.  While a posting is closed or missing, the set of stored
\* applications to it does not grow, whatever else the system does.
C11_SoloPuestoAbierto ==
    [][/\ (resp'.op = "postular" /\ resp'.resultado = "ValueError" /\ resp' # resp) =>
            /\ ~PuestoAbierto(resp'.puesto_id)
            /\ store' = store /\ eventos' = eventos /\ uuids' = uuids
       /\ \A w \in Workers :
            (req[w].pc = "libre" /\ req'[w].pc = "cargado" /\ req'[w].tipo = "postular") =>
               PuestoAbierto(req'[w].puesto_id)
       /\ \A p \in PuestoIds :
            ~PuestoAbierto(p) => PostulacionesA(store', p) = PostulacionesA(store, p)
      ]_vars

\* Posting 1 was closed, and an application to it was then refused.
C11_Testigo ==
    /\ resp = Resp("postular", "ValueError", 0, 1, "-", "-", "-")
    /\ 1 \in DOMAIN puestos
    /\ puestos[1] = CERRADO
    /\ \E i \in DOMAIN eventos : eventos[i].tipo = "PuestoCerrado"

\* A request that found the posting open and went on after another request
\* had closed it.
C11_TestigoCarrera ==
    /\ resp.op = "postular"
    /\ resp.resultado # "ValueError"
    /\ resp.puesto_id = 1
    /\ 1 \in DOMAIN puestos
    /\ puestos[1] = CERRADO

\* C12: a requested state that is no value of the enumeration makes
\* cambiar_estado return False with the aggregate unchanged and no event, and
\* makes both state-update handlers, called for an application PostularHandler
\* built, return False (no error) with store, events and clock as they were.
C12_ValorDesconocido ==
    /\ [](\A s \in EstadoPostulacionEnum, e \in Pedidos \ EstadoPostulacionEnum :
            LET a == PostulacionAggregate(Postulacion(1, 1, 1, 0, s), s,
                                          <<Hito(0, DescCreada(PENDIENTE))>>)
                c == cambiar_estado(a, e, reloj)
            IN ~c.ok /\ c.agg = a /\ c.eventos = <<>>)
    /\ [][(/\ resp'.op \in {"postulante", "reclutador"}
           /\ resp'.postulacion_id \in Creadas
           /\ resp'.nuevo_estado \notin EstadoPostulacionEnum)
          => (/\ resp'.resultado = "False"
              /\ store' = store
              /\ eventos' = eventos
              /\ reloj' = reloj)]_vars

\* C13: for each state-update handler, an application id that does not
\* resolve is not reported by False, the result value of a request the table
\* does not permit.
C13_NoEncontradoDistinto ==
    (/\ resp.op \in {"postulante", "reclutador"}
     /\ resp.postulacion_id \notin Creadas) =>
        resp.resultado # "False"

\* C14: a failure inside a repository call reaches the caller as a failure of
\* its own, never as one of the normal results (created, True, False, the
\* ValueError of not found), and leaves the store as it was.
C14_FallaDistinta ==
    [][resp'.visto = Falla =>
          /\ resp'.resultado \notin {"ok", "True", "False", "ValueError"}
          /\ store' = store]_vars

\* C15: a successful cambiar_estado adds exactly one
\* EstadoPostulacionActualizado event carrying the application id, the state
\* the aggregate held before the call and the new state; a refused
\* cambiar_estado adds no event; postularse adds exactly one
\* PostulacionCreada event; nothing else on the aggregate adds an event.
C15_UnEventoPorTransicion ==
    [][/\ (ult'.op = "cambiar_estado" /\ ult'.ok) =>
             eventos' = Append(eventos,
                 [tipo |-> "EstadoPostulacionActualizado",
                  postulacion_id |-> ag.postulacion.postulacion_id,
                  estado_anterior |-> ag.estado,
                  estado_nuevo |-> ult'.pedido])
       /\ (ult'.op = "cambiar_estado" /\ ~ult'.ok) => eventos' = eventos
       /\ ult'.op = "postularse" =>
             /\ Len(eventos') = Len(eventos) + 1
             /\ SubSeq(eventos', 1, Len(eventos)) = eventos
             /\ eventos'[Len(eventos')].tipo = "PostulacionCreada"
             /\ eventos'[Len(eventos')].postulacion_id = ag'.postulacion.postulacion_id
       /\ ult'.op \in {"actualizar_estado", "registrar_evento",
                       "actualizar_descripcion", "cambiar_fecha"} =>
             eventos' = eventos]_vars

\* Created, two transitions, then a refused one: three events, the last one
\* for en_revision -> aceptado.
C15_Testigo ==
    /\ ult = Ult("cambiar_estado", PENDIENTE, FALSE)
    /\ ag.estado = ACEPTADO
    /\ Len(eventos) = 3
    /\ eventos[1].tipo = "PostulacionCreada"
    /\ eventos[3] = [tipo |-> "EstadoPostulacionActualizado", postulacion_id |-> 1,
                     estado_anterior |-> EN_REVISION, estado_nuevo |-> ACEPTADO]

\* The stored applications of a candidate, and those in given states.
Postulaciones(cuenta) == {i \in DOMAIN store : store[i].cuenta_id = cuenta}
EnEstado(cuenta, estados) == {i \in Postulaciones(cuenta) : store[i].estado \in estados}

\* C16: the summary of a candidate and the projection behind it report as
\* total the number of applications the candidate has, and as interview,
\* offer and rejected counts the number of those whose current state is
\* entrevista, oferta, or a rejection label.
C16_ProyeccionSinDeriva ==
    met.op \in {"obtener_por_postulante", "ConsultarResumenMetricas"} =>
        /\ met.res.error = "-"
        /\ LET m == IF met.op = "obtener_por_postulante"
                    THEN met.res.valor.metrica_registro ELSE met.res.valor
               c == met.arg[1]
           IN
           /\ m.total_postulaciones = Cardinality(Postulaciones(c))
           /\ m.total_entrevistas = Cardinality(EnEstado(c, {ENTREVISTA}))
           /\ m.total_exitos = Cardinality(EnEstado(c, {OFERTA}))
           /\ m.total_rechazos = Cardinality(EnEstado(c, Rechazos))

\* C17: with no application of the candidate stored, the summary handlers
\* answer without error, and the answer is the zero-filled snapshot: all
\* counters 0, rate 0.0; and the list of achievements is empty.
C17_SinPostulaciones ==
    (/\ met.op \in {"ConsultarResumenMetricas", "RecalcularMetricas", "ListarLogros"}
     /\ Postulaciones(met.arg[1]) = {}) =>
        /\ met.res.error = "-"
        /\ met.op = "ListarLogros" => met.res.valor = <<>>
        /\ met.op # "ListarLogros" =>
              LET d == met.res.valor IN
              /\ d.total_postulaciones = 0 /\ d.total_entrevistas = 0
              /\ d.total_exitos = 0 /\ d.total_rechazos = 0
              /\ d.tasa_exito.num = 0

\* C18: a summary is produced, and its rate is offers / total * 100 when
\* total > 0 and 0 when total = 0; the quotient never has divisor 0, and the
\* rate lies between 0 and 100.
C18_TasaDeExito ==
    met.op = "RecalcularMetricas" =>
        /\ met.res.error = "-"
        /\ LET d == met.res.valor
               t == d.tasa_exito
           IN
           /\ t.den > 0
           /\ d.total_postulaciones > 0 =>
                 t.num * d.total_postulaciones = d.total_exitos * 100 * t.den
           /\ d.total_postulaciones = 0 => t.num = 0
           /\ 0 <= t.num /\ t.num <= 100 * t.den

\* C19: the rejection counter of a candidate answers, and its count is the
\* number of the candidate's applications whose current state is rechazado or
\* rechazo, both labels alike.
C19_RechazosEquivalentes ==
    met.op = "ContadorRechazos" =>
        /\ met.res.error = "-"
        /\ met.res.valor.total_rechazos = Cardinality(EnEstado(met.arg[1], Rechazos))

Nombres(lista_logros) == {lista_logros[i].nombre_logro : i \in DOMAIN lista_logros}

\* C20: the achievements _calcular_logros gives follow four independent
\* thresholds on the counters it is given: "Postulante Activo" iff total >=
\* 10, "Entrevistado Frecuente" iff interviews >= 5, "Primera Oferta" iff
\* offers >= 1, "Candidato Destacado" iff offers >= 3; each at most once,
\* with its threshold, and no other.
C20_Logros ==
    met.op = "_calcular_logros" =>
        LET total_postulaciones == met.arg[1]
            total_entrevistas == met.arg[2]
            total_exitos == met.arg[3]
            l == met.res.valor
        IN
        /\ "Postulante Activo" \in Nombres(l) <=> total_postulaciones >= 10
        /\ "Entrevistado Frecuente" \in Nombres(l) <=> total_entrevistas >= 5
        /\ "Primera Oferta" \in Nombres(l) <=> total_exitos >= 1
        /\ "Candidato Destacado" \in Nombres(l) <=> total_exitos >= 3
        /\ Nombres(l) \subseteq {"Postulante Activo", "Entrevistado Frecuente",
                                  "Primera Oferta", "Candidato Destacado"}
        /\ Cardinality(Nombres(l)) = Len(l)
        /\ \A i \in DOMAIN l :
              l[i].umbral = (IF l[i].nombre_logro = "Postulante Activo" THEN 10
                             ELSE IF l[i].nombre_logro = "Entrevistado Frecuente" THEN 5
                             ELSE IF l[i].nombre_logro = "Primera Oferta" THEN 1
                             ELSE 3)

\* Ten applications with one offer and two interviews: exactly "Postulante
\* Activo" and "Primera Oferta".
C20_Testigo ==
    /\ met.op = "_calcular_logros"
    /\ met.arg[1] = 10 /\ met.arg[2] = 2 /\ met.arg[3] = 1
    /\ Nombres(met.res.valor) = {"Postulante Activo", "Primera Oferta"}

\* All four at once; and three offers with no application still give the two
\* offer achievements.
C20_TestigoTodos ==
    /\ met.op = "_calcular_logros"
    /\ Len(met.res.valor) = 4

C20_TestigoSuelto ==
    /\ met.op = "_calcular_logros"
    /\ met.arg[1] = 0 /\ met.arg[3] = 3
    /\ Nombres(met.res.valor) = {"Primera Oferta", "Candidato Destacado"}

\* ------------------------------------------------------------------ C21
\* C21: the evaluation of the achievements keeps no state and is idempotent:
\* the repository instance holds after any number of evaluations what it
\* held when it was built, nothing; and an evaluation that follows one with
\* the same counters returns the same names and thresholds, in the same
\* order, whatever was evaluated before the two.
C21_LogrosIdempotente ==
    /\ mrepo = {}
    /\ (met.op = "_calcular_logros" /\ met.antes # <<>>) => met.antes[1] = met.res

\* A second evaluation for counters that earn two achievements or more.
C21_Testigo ==
    /\ met.op = "_calcular_logros"
    /\ met.antes # <<>>
    /\ Len(met.res.valor) >= 2

\* ------------------------------------------------------------------ C22
\* C22: while a posting is closed, actualizar_informacion, agregar_requisito
\* and actualizar_requisitos each end in an error and change nothing, and
\* while it is open each of them goes through.  ActualizarPuestoHandler
\* raises ValueError for a posting it finds closed (or does not find), with
\* the stored columns and the event list as before; it goes on to write only
\* a posting it found open.
C22_CerradoNoSeModifica ==
    [][/\ (pult' # pult /\ pult'.op # "cambiar_estado") =>
            IF pag.puesto.estado = CERRADO
            THEN pult'.error = "ValueError" /\ pag' = pag /\ eventos' = eventos
            ELSE pult'.error = "-"
       /\ (resp'.op = "actualizar_puesto" /\ resp' # resp
           /\ resp'.resultado = "ValueError") =>
            /\ ~PuestoAbierto(resp'.puesto_id)
            /\ puestos' = puestos /\ pdatos' = pdatos /\ eventos' = eventos
       /\ \A w \in Workers :
            (/\ req[w].pc = "libre" /\ req'[w].pc = "cargado"
             /\ req'[w].tipo = "actualizar_puesto") =>
               /\ PuestoAbierto(req'[w].puesto_id)
               /\ req'[w].cargado = ABIERTO
               /\ puestos' = puestos /\ pdatos' = pdatos /\ eventos' = eventos
       /\ (resp'.op = "actualizar_puesto" /\ resp' # resp
           /\ resp'.resultado # "ValueError") => resp'.cargado = ABIERTO
      ]_vars

\* A posting that was changed while open and then closed: a further change
\* was refused and it still holds what it held.
C22_Testigo ==
    /\ pag.puesto.estado = CERRADO
    /\ pag.puesto.titulo = "T"
    /\ Len(pag.requisitos) = 2
    /\ pult = PUlt("actualizar_informacion", "ValueError")

\* The handler refused a change to posting 1, closed by an earlier request.
C22_TestigoHandler ==
    /\ resp = Resp("actualizar_puesto", "ValueError", 0, 1, "-", CERRADO, "-")
    /\ puestos[1] = CERRADO
    /\ Len(eventos) = 1

\* An update request found the posting open and wrote after another request
\* had closed it.
C22_TestigoCarrera ==
    /\ resp.op = "actualizar_puesto"
    /\ resp.resultado # "ValueError"
    /\ resp.visto = CERRADO

\* ------------------------------------------------------------------ C24
\* C24: CambiarEstadoPuestoHandler, asked for "abierto" or "cerrado",
\* succeeds exactly when the posting it loads is in the other state, and then
\* it writes the requested state and leaves the other postings as they were;
\* asked for the state the posting is in (or for a posting that does not
\* exist), it raises ValueError, and the stored postings and the event list
\* are as before.
C24_AlternaAbiertoCerrado ==
    [][/\ (resp'.op = "puesto" /\ resp' # resp /\ resp'.resultado = "ValueError") =>
            /\ \/ resp'.puesto_id \notin DOMAIN puestos
               \/ puestos[resp'.puesto_id] = resp'.nuevo_estado
            /\ puestos' = puestos /\ pdatos' = pdatos /\ eventos' = eventos
       /\ \A w \in Workers :
            /\ (/\ req[w].pc = "libre" /\ req'[w].pc = "cargado"
                /\ req'[w].tipo = "puesto") =>
                  /\ req'[w].puesto_id \in DOMAIN puestos
                  /\ req'[w].cargado = puestos[req'[w].puesto_id]
                  /\ {req'[w].cargado, req'[w].nuevo_estado} = {ABIERTO, CERRADO}
                  /\ puestos' = puestos /\ pdatos' = pdatos /\ eventos' = eventos
            /\ (/\ req[w].pc = "cargado" /\ req[w].tipo = "puesto"
                /\ req'[w].pc = "libre") =>
                  LET p == req[w].puesto_id IN
                  /\ resp'.op = "puesto" /\ resp'.resultado = "ok"
                  /\ resp'.puesto_id = p
                  /\ resp'.nuevo_estado = req[w].nuevo_estado
                  /\ puestos'[p] = req[w].nuevo_estado
                  /\ \A q \in DOMAIN puestos \ {p} :
                        q \in DOMAIN puestos' /\ puestos'[q] = puestos[q]
      ]_vars

\* Posting 1 was closed and reopened, and a second request to open it was
\* refused.
C24_Testigo ==
    /\ resp = Resp("puesto", "ValueError", 0, 1, ABIERTO, ABIERTO, "-")
    /\ puestos[1] = ABIERTO
    /\ \E i \in DOMAIN eventos :
          eventos[i].tipo = "PuestoCerrado" /\ eventos[i].puesto_id = 1

\* Two requests to close posting 1 both loaded it open; the second wrote
\* "cerrado" over "cerrado" and both succeeded.
C24_TestigoCarrera ==
    /\ resp.op = "puesto" /\ resp.resultado = "ok"
    /\ resp.nuevo_estado = CERRADO
    /\ resp.cargado = ABIERTO
    /\ resp.visto = CERRADO

\* ------------------------------------------------------------------ C23
\* C23: all aggregate instances, of whatever type, share one event list: an
\* event added through one of them is the last event get_events returns for
\* each of the others, after what they returned before; clear_events on one
\* leaves get_events empty for all; and at all times get_events returns the
\* same list for every instance.
C23_ListaCompartida ==
    /\ [](\A a, b \in Agregados :
            get_events(propios, eventos, a) = get_events(propios, eventos, b))
    /\ [][/\ (evult'.op = "add_event" /\ evult' # evult) =>
               \A b \in Agregados :
                  get_events(propios', eventos', b)
                     = get_events(propios, eventos, b) \o evult'.valor
          /\ evult'.op = "clear_events" =>
               \A b \in Agregados : get_events(propios', eventos', b) = <<>>
          /\ evult'.op = "get_events" => evult'.valor = eventos
         ]_vars

\* The posting aggregate reads back what an application aggregate and the
\* metrics aggregate added.
C23_Testigo ==
    /\ evult.op = "get_events" /\ evult.agregado = "PuestoAggregate 1"
    /\ evult.valor = <<PostulacionCreada(1), MetricaActualizada(1, "postulacion_creada")>>

\* One aggregate cleared the events the others had added.
C23_TestigoClear ==
    /\ evult = EvUlt("clear_events", "MetricaAggregate 1", <<>>)
    /\ \A a \in Agregados : get_events(propios, eventos, a) = <<>>

\* ------------------------------------------------------------------ C25
LogrosConseguidos == SelectSeq(eventos, LAMBDA e : e.tipo = "LogroConseguido")

\* C25: in the aggregate that keeps its achievements, no two entries of
\* lista_logros have the same name; each entry has exactly one LogroConseguido
\* event, emitted by the call that granted it, in the order of granting; a
\* call of evaluar_logros returns exactly the entries it added; and a call
\* that repeats the one before it returns the empty list and changes nothing.
C25_LogroUnaVez ==
    /\ [](/\ Cardinality(Nombres(magg.lista_logros)) = Len(magg.lista_logros)
          /\ Len(LogrosConseguidos) = Len(magg.lista_logros)
          /\ \A i \in DOMAIN LogrosConseguidos :
                LogrosConseguidos[i].nombre_logro = magg.lista_logros[i].nombre_logro
          /\ (mult.op = "evaluar_logros" /\ mult.repetida) => mult.valor = <<>>)
    /\ [][mult'.op = "evaluar_logros" =>
            /\ magg'.lista_logros = magg.lista_logros \o mult'.valor
            /\ magg'.metrica_registro = magg.metrica_registro
            /\ Len(eventos') = Len(eventos) + Len(mult'.valor)
            /\ mult'.repetida => magg' = magg /\ eventos' = eventos
         ]_vars

\* The four rules were evaluated twice in a row on counters that grant three
\* of them: the second call returned nothing.
C25_Testigo ==
    /\ mult.op = "evaluar_logros" /\ mult.repetida
    /\ Len(mult.arg) = 4
    /\ Nombres(magg.lista_logros)
          = {"Primeras postulaciones", "Entrevistado Frecuente", "Primera Oferta"}

\* One rule given twice in one call is granted once.
C25_TestigoDoble ==
    /\ mult.op = "evaluar_logros" /\ Len(mult.arg) = 2
    /\ Len(mult.valor) = 1

\* ------------------------------------------------------------------ C26
\* C26: the aggregate's own estado and the estado of the application it wraps
\* are equal when the aggregate is built, and a cambiar_estado call made when
\* they are equal leaves them equal: after a call that succeeds both are the
\* requested state, after a call that fails both are what they were.  The
\* other methods of the aggregate and its timeline keep them equal too.
C26_EstadoSinDivergencia ==
    /\ [](ult.op = "postularse" => ag.estado = ag.postulacion.estado)
    /\ [][(ult'.op = "cambiar_estado" /\ ag.estado = ag.postulacion.estado) =>
            /\ ag'.estado = ag'.postulacion.estado
            /\ IF ult'.ok THEN ag'.estado = ult'.pedido ELSE ag'.estado = ag.estado
         ]_vars
    /\ [][(ult'.op # "actualizar_estado" /\ ag.estado = ag.postulacion.estado) =>
            ag'.estado = ag'.postulacion.estado]_vars

\* A cambiar_estado that was refused after two that succeeded: both states
\* are the one the second reached.
C26_Testigo ==
    /\ ult.op = "cambiar_estado" /\ ~ult.ok
    /\ Len(ag.linea_de_tiempo) = 3
    /\ ag.estado = ENTREVISTA
    /\ ag.postulacion.estado = ENTREVISTA

\* A cambiar_estado that succeeded: both states are the one asked for.
C26_TestigoExito ==
    /\ ult = Ult("cambiar_estado", EN_REVISION, TRUE)
    /\ ag.estado = EN_REVISION
    /\ ag.postulacion.estado = EN_REVISION

\* ------------------------------------------------------------------ C27
\* The candidate's applications by current state: how many there are, and how
\* many are in one of the given states.
AppsVivas == {i \in DOMAIN apps : apps[i] # ELIMINADA}
AppsEn(estados) == {i \in AppsVivas : apps[i] \in estados}

\* C27: while no application has been deleted, the counters of the aggregate
\* fed with the candidate's events equal the counts by current state: the
\* number of applications, and of those in entrevista, in oferta, and in a
\* rejection label.
C27_ContadoresSegunProyeccion ==
    (\A i \in DOMAIN apps : apps[i] # ELIMINADA) =>
        LET m == magg.metrica_registro IN
        /\ m.total_postulaciones = Cardinality(AppsVivas)
        /\ m.total_entrevistas = Cardinality(AppsEn({ENTREVISTA}))
        /\ m.total_exitos = Cardinality(AppsEn({OFERTA}))
        /\ m.total_rechazos = Cardinality(AppsEn(Rechazos))

\* ------------------------------------------------------------------ C28
\* C28: in the aggregate fed with creations, successful transitions and
\* deletions of existing applications, the offers never exceed the total, no
\* counter is negative, and the rate is between 0 and 100.
C28_ExitosDentroDelTotal ==
    LET m == magg.metrica_registro IN
    /\ 0 <= m.total_exitos /\ m.total_exitos <= m.total_postulaciones
    /\ m.total_postulaciones >= 0 /\ m.total_entrevistas >= 0 /\ m.total_rechazos >= 0
    /\ m.tasa_exito.den > 0
    /\ 0 <= m.tasa_exito.num /\ m.tasa_exito.num <= 100 * m.tasa_exito.den

====
